---- MODULE Spec2Model ----
(***************************************************************************)
(* A model of fastboot.js: the fastboot protocol client (FastbootDevice),  *)
(* its timeout helper and the sparse-image splitter it drives, running     *)
(* against a USB bulk transport and a bootloader.                          *)
(*                                                                         *)
(* JavaScript runs one task to completion before the next event is         *)
(* handled, so the client's code between two awaits is a chain of steps    *)
(* that no transport event, timer or device step interrupts: the events    *)
(* (DevRecv, Deliver, TimerFire, TransferError) are enabled only while the *)
(* client's flow of control waits for I/O (Blocked).                       *)
(*                                                                         *)
(* Text is a sequence of characters (one-character strings); a packet is a *)
(* sequence of bytes.  A command is a TLA+ string, built with \o as the    *)
(* code builds it with template strings.                                   *)
(***************************************************************************)
EXTENDS Integers, Sequences, FiniteSets, TLC

VARIABLES
    prog,       \* the client operations the caller has still to issue
    stk,        \* the awaited call chain of the client, innermost first
    ret,        \* the settled result handed to the innermost frame
    wr,         \* transferOut requests the device has not accepted yet (FIFO)
    rd,         \* transferIn requests waiting for a packet (FIFO)
    inq,        \* packets the device has sent and no transferIn has taken
    dev,        \* the bootloader: remaining payload bytes it expects
    timer,      \* runWithTimeout: the call whose timer is armed, 0 if none
    nextId,     \* ids for commands and getVariable calls
    timedOut,   \* runWithTimeout: the calls whose timedOut flag is set
    budget,     \* what the environment may still do (INFO lines, faults)
    trace,      \* history: calls, transport writes, delivered packets, results
    settles,    \* history: every resolve/reject runWithTimeout has performed
    conn,       \* the USB side of FastbootDevice: device, listeners, connect waiter
    clock,      \* the time new Date().getTime() gives, in milliseconds
    ticking     \* runWithTimedProgress: the progress loop and the stop flag it shares

vars == <<prog, stk, ret, wr, rd, inq, dev, timer, timedOut, nextId, budget, trace, settles, conn,
          clock, ticking>>

(***************************************************************************)
(* Program constants.                                                      *)
(***************************************************************************)
BULK_TRANSFER_SIZE == 16384
DEFAULT_DOWNLOAD_SIZE == 536870912
MAX_DOWNLOAD_SIZE == 1073741824
GETVAR_TIMEOUT == 10000
FILE_HEADER_SIZE == 28
CHUNK_HEADER_SIZE == 12
RAW_CHUNK_SIZE == 67108864
MAJOR_VERSION == 1
MINOR_VERSION == 0
\* 0xED26FF3A as the four bytes getUint32(0, true) reads, lowest first
FILE_MAGIC == <<58, 255, 38, 237>>
ChunkRaw == 51905
ChunkFill == 51906
ChunkSkip == 51907
ChunkCrc32 == 51908
\* the 64-byte limit of a command (runCommand)
MaxCommandLength == 64
\* the 8 hex digits of a download size (upload)
XferHexDigits == 8

(***************************************************************************)
(* Bounds of the model.                                                    *)
(***************************************************************************)
\* INFO packets the bootloader sends in one run
MaxInfo == 1
\* things that go wrong in one run: a command the bootloader fails, answers
\* oddly or leaves without an answer, a transfer the transport fails
MaxFaults == 1

(***************************************************************************)
(* Text and bytes.                                                         *)
(***************************************************************************)
Min(a, b) == IF a <= b THEN a ELSE b

RECURSIVE StrOf(_)
\* the JavaScript string holding the characters cs, as a TLA+ string
StrOf(cs) == IF cs = <<>> THEN "" ELSE Head(cs) \o StrOf(Tail(cs))

\* String.prototype.substring(a, b) and substring(a), 0-based
Substring(s, a, b) == SubSeq(s, Min(a, Len(s)) + 1, Min(b, Len(s)))
SubstringFrom(s, a) == SubSeq(s, Min(a, Len(s)) + 1, Len(s))

\* Bytes above 0x7F that packets of the model may hold: the lead byte 0xC3 and
\* the continuation byte 0xA9 (together U+00E9).  Every other byte is ASCII and
\* is written as its character.
LeadBytes == {"xC3"}
ContBytes == {"xA9"}
ReplacementChar == "#FFFD"
TwoByteChar(b1, b2) == "#00E9"

RECURSIVE Utf8Decode(_)
\* new TextDecoder().decode(bytes): UTF-8, a malformed byte becomes U+FFFD
Utf8Decode(bytes) ==
    IF bytes = <<>> THEN <<>>
    ELSE IF Head(bytes) \in LeadBytes
         THEN IF Len(bytes) >= 2 /\ bytes[2] \in ContBytes
              THEN <<TwoByteChar(bytes[1], bytes[2])>> \o Utf8Decode(Tail(Tail(bytes)))
              ELSE <<ReplacementChar>> \o Utf8Decode(Tail(bytes))
    ELSE IF Head(bytes) \in ContBytes
         THEN <<ReplacementChar>> \o Utf8Decode(Tail(bytes))
    ELSE <<Head(bytes)>> \o Utf8Decode(Tail(bytes))

RECURSIVE Utf8Encode(_)
\* the UTF-8 bytes of a text (TextEncoder), the inverse on well-formed text
Utf8Encode(cs) ==
    IF cs = <<>> THEN <<>>
    ELSE IF Head(cs) = "#00E9" THEN <<"xC3", "xA9">> \o Utf8Encode(Tail(cs))
    ELSE IF Head(cs) = ReplacementChar THEN <<"xEF", "xBF", "xBD">> \o Utf8Encode(Tail(cs))
    ELSE <<Head(cs)>> \o Utf8Encode(Tail(cs))

WhiteSpace == {" ", "\n", "\t", "\r"}

RECURSIVE TrimStart(_)
TrimStart(cs) ==
    IF cs # <<>> /\ Head(cs) \in WhiteSpace THEN TrimStart(Tail(cs)) ELSE cs

RECURSIVE TrimEnd(_)
TrimEnd(cs) ==
    IF cs # <<>> /\ cs[Len(cs)] \in WhiteSpace
    THEN TrimEnd(SubSeq(cs, 1, Len(cs) - 1)) ELSE cs

\* String.prototype.trim
Trim(cs) == TrimEnd(TrimStart(cs))

LowerOf(c) ==
    CASE c = "A" -> "a" [] c = "B" -> "b" [] c = "C" -> "c" [] c = "D" -> "d"
      [] c = "E" -> "e" [] c = "F" -> "f" [] c = "X" -> "x" [] OTHER -> c

\* String.prototype.toLowerCase, on the letters the model's texts hold
ToLowerCase(cs) == [i \in 1..Len(cs) |-> LowerOf(cs[i])]

(***************************************************************************)
(* Numbers.  A size that may not fit TLC's integers is kept as two limbs,  *)
(* value = hi * 65536 + lo; NaN is a value of its own.                     *)
(***************************************************************************)
Limb == 256 * 256
Wide(hi, lo) == [nan |-> FALSE, hi |-> hi, lo |-> lo]
WideOf(n) == Wide(n \div Limb, n % Limb)
NaN == [nan |-> TRUE, hi |-> 0, lo |-> 0]
\* the value of a wide number that fits an integer of the model
IntOf(w) == w.hi * Limb + w.lo
HexChars == <<"0", "1", "2", "3", "4", "5", "6", "7",
              "8", "9", "a", "b", "c", "d", "e", "f">>
HexDigit(d) == HexChars[d + 1]
IsHex(c) == \E d \in 0..15 : HexChars[d + 1] = LowerOf(c)
HexVal(c) == CHOOSE d \in 0..15 : HexChars[d + 1] = LowerOf(c)

RECURSIVE NatToHex(_)
\* the hex digits of n > 0, most significant first, no leading zero
NatToHex(n) == IF n = 0 THEN <<>> ELSE NatToHex(n \div 16) \o <<HexDigit(n % 16)>>

RECURSIVE PadStart(_, _, _)
\* String.prototype.padStart(n, c)
PadStart(cs, n, c) == IF Len(cs) >= n THEN cs ELSE PadStart(<<c>> \o cs, n, c)

\* Number.prototype.toString(16) of a non-negative integer
ToString16(w) ==
    IF w.hi = 0
    THEN IF w.lo = 0 THEN <<"0">> ELSE NatToHex(w.lo)
    ELSE NatToHex(w.hi) \o PadStart(NatToHex(w.lo), 4, "0")

RECURSIVE HexPrefix(_)
\* the longest prefix of cs made of hex digits
HexPrefix(cs) ==
    IF cs # <<>> /\ IsHex(Head(cs)) THEN <<Head(cs)>> \o HexPrefix(Tail(cs)) ELSE <<>>

RECURSIVE HexAccum(_, _)
\* the value of the digits ds appended to the value acc
HexAccum(acc, ds) ==
    IF ds = <<>> THEN acc
    ELSE LET lo == acc.lo * 16 + HexVal(Head(ds))
         IN  HexAccum(Wide(acc.hi * 16 + lo \div Limb, lo % Limb), Tail(ds))

\* parseInt(cs, 16): leading white space and an optional 0x are skipped, the
\* digits up to the first character that is no hex digit are read, and no
\* digit at all gives NaN
ParseInt16(cs) ==
    LET s  == TrimStart(cs)
        t  == IF Len(s) >= 2 /\ s[1] = "0" /\ LowerOf(s[2]) = "x"
              THEN SubstringFrom(s, 2) ELSE s
        ds == HexPrefix(t)
    IN  IF ds = <<>> THEN NaN ELSE HexAccum(Wide(0, 0), ds)

\* Math.min(a, b) with b a plain integer: NaN if a is NaN
MathMin(a, b) ==
    IF a.nan THEN NaN
    ELSE IF a.hi > b \div Limb \/ (a.hi = b \div Limb /\ a.lo > b % Limb)
         THEN WideOf(b) ELSE a

(***************************************************************************)
(* Values: errors, results, the response record of _readResponse.          *)
(***************************************************************************)
Err(name, status, message) == [name |-> name, status |-> status, message |-> message]
\* new FastbootError(status, message)
FastbootError(status, message) == Err("FastbootError", status, message)
TimeoutError == Err("TimeoutError", <<>>, <<>>)
RangeError == Err("RangeError", <<>>, <<>>)
ImageError == Err("ImageError", <<>>, <<>>)
\* the DOMException a failed transferIn or transferOut rejects with
NetworkError == Err("NetworkError", <<>>, <<>>)

OKAY == <<"O", "K", "A", "Y">>
INFO == <<"I", "N", "F", "O">>
DATA == <<"D", "A", "T", "A">>
FAIL == <<"F", "A", "I", "L">>

None == [k |-> "none", v |-> <<>>]
Ok(v) == [k |-> "ok", v |-> v]
Thrown(e) == [k |-> "err", v |-> e]
Undefined == <<>>

\* no progress loop of runWithTimedProgress is under way
NotTicking ==
    [on |-> FALSE, action |-> "", item |-> "", duration |-> 0, startTime |-> 0, now |-> 0,
     stop |-> FALSE]

\* a string or null, as getVariable returns it
Null == [null |-> TRUE, s |-> <<>>]
Text(cs) == [null |-> FALSE, s |-> cs]

\* respData of _readResponse: dataSize is undefined until hasData
EmptyResp == [text |-> <<>>, hasData |-> FALSE, dataSize |-> <<>>]

\* _readResponse without the line feed after an INFO body
ReadResponseStepNoLineFeed(respData, packet) ==
    LET response    == Utf8Decode(packet)
        respStatus  == Substring(response, 0, 4)
        respMessage == SubstringFrom(response, 4)
    IN  IF respStatus = OKAY
        THEN [k |-> "return", err |-> RangeError,
              resp |-> [respData EXCEPT !.text = @ \o respMessage]]
        ELSE IF respStatus = INFO
        THEN [k |-> "loop", err |-> RangeError,
              resp |-> [respData EXCEPT !.text = @ \o respMessage]]
        ELSE IF respStatus = DATA
        THEN [k |-> "return", err |-> RangeError,
              resp |-> [respData EXCEPT !.hasData = TRUE, !.dataSize = respMessage]]
        ELSE [k |-> "throw", err |-> FastbootError(respStatus, respMessage),
              resp |-> respData]

\* _readResponse without its loop: it returns after the first packet, INFO too
ReadResponseStepOnce(respData, packet) ==
    LET response    == Utf8Decode(packet)
        respStatus  == Substring(response, 0, 4)
        respMessage == SubstringFrom(response, 4)
    IN  IF respStatus = OKAY
        THEN [k |-> "return", err |-> RangeError,
              resp |-> [respData EXCEPT !.text = @ \o respMessage]]
        ELSE IF respStatus = INFO
        THEN [k |-> "return", err |-> RangeError,
              resp |-> [respData EXCEPT !.text = @ \o respMessage \o <<"\n">>]]
        ELSE IF respStatus = DATA
        THEN [k |-> "return", err |-> RangeError,
              resp |-> [respData EXCEPT !.hasData = TRUE, !.dataSize = respMessage]]
        ELSE [k |-> "throw", err |-> FastbootError(respStatus, respMessage),
              resp |-> respData]

\* One pass of the loop of _readResponse over a packet that transferIn gave:
\* "loop" while the packet is INFO, "return" on OKAY and DATA, "throw" otherwise.
ReadResponseStep(respData, packet) ==
    LET response    == Utf8Decode(packet)
        respStatus  == Substring(response, 0, 4)
        respMessage == SubstringFrom(response, 4)
    IN  IF respStatus = OKAY
        THEN [k |-> "return", err |-> RangeError,
              resp |-> [respData EXCEPT !.text = @ \o respMessage]]
        ELSE IF respStatus = INFO
        THEN [k |-> "loop", err |-> RangeError,
              resp |-> [respData EXCEPT !.text = @ \o respMessage \o <<"\n">>]]
        ELSE IF respStatus = DATA
        THEN [k |-> "return", err |-> RangeError,
              resp |-> [respData EXCEPT !.hasData = TRUE, !.dataSize = respMessage]]
        ELSE [k |-> "throw", err |-> FastbootError(respStatus, respMessage),
              resp |-> respData]

(***************************************************************************)
(* The client's flow of control.                                           *)
(***************************************************************************)
Top == stk[1]
Rest == Tail(stk)

\* the client has a step to take now; otherwise it waits for I/O or for the caller
\* a call of runWithTimedProgress whose work has been started and whose body
\* has not run yet
TimedCalled(i) == stk[i].fn = "runWithTimedProgress" /\ stk[i].pc = "called"

Running ==
    \/ ret.k # "none"
    \/ stk # <<>> /\ Top.pc = "start"
    \/ \E i \in 1..Len(stk) : TimedCalled(i)
Blocked == ~Running

Frame(fn, args) == [fn |-> fn, pc |-> "start", a |-> args]
At(fn, pc) == stk # <<>> /\ Top.fn = fn /\ Top.pc = pc
Resumed(fn, pc) == At(fn, pc) /\ ret.k # "none"


(***************************************************************************)
(* JavaScript numbers that may be NaN (the download size limit).           *)
(***************************************************************************)
J(n) == [nan |-> FALSE, n |-> n]
JNaN == [nan |-> TRUE, n |-> 0]
\* a wide number that fits, or NaN, as a JavaScript number
JOf(w) == IF w.nan THEN JNaN ELSE J(IntOf(w))
\* n <= x, n > x, x >= n and x - n for an integer n and a number x: a comparison
\* with NaN is false and a difference with NaN is NaN
JsLe(n, x) == ~x.nan /\ n <= x.n
JsGt(n, x) == ~x.nan /\ n > x.n
JsGe(x, n) == ~x.nan /\ x.n >= n
JsSub(x, n) == IF x.nan THEN JNaN ELSE J(x.n - n)

(***************************************************************************)
(* Sparse images (sparse.ts).  A Blob is its size, the fields a DataView   *)
(* reads in its first 28 bytes, and the chunks that follow them; a chunk   *)
(* is its header fields and the size of its data.                          *)
(***************************************************************************)
\* a number setUint32 stores: the integer part of n / d
SetUint32(n, d) == n \div d

HeaderView(len, magic, major, minor, fileHdrSize, chunkHdrSize, blockSize, blocks, chunks, crc32) ==
    [len |-> len, magic |-> magic, major |-> major, minor |-> minor,
     fileHdrSize |-> fileHdrSize, chunkHdrSize |-> chunkHdrSize,
     blockSize |-> blockSize, blocks |-> blocks, chunks |-> chunks, crc32 |-> crc32]

SparseHeader(blockSize, blocks, chunks, crc32) ==
    [blockSize |-> blockSize, blocks |-> blocks, chunks |-> chunks, crc32 |-> crc32]

SparseChunk(type, blocks, dataBytes, data) ==
    [type |-> type, blocks |-> blocks, dataBytes |-> dataBytes, data |-> data]

\* parseFileHeader looking at the version before the magic
ParseFileHeaderVersionFirst(view) ==
    IF view.major # MAJOR_VERSION
    THEN [k |-> "throw", err |-> ImageError, hdr |-> SparseHeader(0, 0, 0, 0)]
    ELSE IF view.magic # FILE_MAGIC
    THEN [k |-> "null", err |-> RangeError, hdr |-> SparseHeader(0, 0, 0, 0)]
    ELSE [k |-> "ok", err |-> RangeError,
          hdr |-> SparseHeader(view.blockSize, view.blocks, view.chunks, view.crc32)]

\* parseFileHeader: null for a foreign magic, ImageError for an unsupported
\* header; a DataView read past the end of the buffer throws RangeError
ParseFileHeader(view) ==
    IF view.len < 4 THEN [k |-> "throw", err |-> RangeError, hdr |-> SparseHeader(0, 0, 0, 0)]
    ELSE IF view.magic # FILE_MAGIC
    THEN [k |-> "null", err |-> RangeError, hdr |-> SparseHeader(0, 0, 0, 0)]
    ELSE IF view.len < FILE_HEADER_SIZE
    THEN [k |-> "throw", err |-> RangeError, hdr |-> SparseHeader(0, 0, 0, 0)]
    ELSE IF view.major # MAJOR_VERSION \/ view.minor < MINOR_VERSION
    THEN [k |-> "throw", err |-> ImageError, hdr |-> SparseHeader(0, 0, 0, 0)]
    ELSE IF view.fileHdrSize # FILE_HEADER_SIZE \/ view.chunkHdrSize # CHUNK_HEADER_SIZE
    THEN [k |-> "throw", err |-> ImageError, hdr |-> SparseHeader(0, 0, 0, 0)]
    ELSE IF view.blockSize % 4 # 0
    THEN [k |-> "throw", err |-> ImageError, hdr |-> SparseHeader(0, 0, 0, 0)]
    ELSE [k |-> "ok", err |-> RangeError,
          hdr |-> SparseHeader(view.blockSize, view.blocks, view.chunks, view.crc32)]

RECURSIVE SumOf(_, _)
SumOf(f, n) == IF n = 0 THEN 0 ELSE f[n] + SumOf(f, n - 1)

\* calcChunksBlockSize counting the blocks of data only, not those skipped
CalcChunksBlockSizeNoSkip(chunks) ==
    SumOf([i \in 1..Len(chunks) |->
                IF chunks[i].type = ChunkSkip THEN 0 ELSE chunks[i].blocks], Len(chunks))

\* calcChunksBlockSize, calcChunksDataSize, calcChunksSize
CalcChunksBlockSize(chunks) == SumOf([i \in 1..Len(chunks) |-> chunks[i].blocks], Len(chunks))
CalcChunksDataSize(chunks) == SumOf([i \in 1..Len(chunks) |-> chunks[i].data], Len(chunks))
CalcChunksSize(chunks) ==
    LET overhead == FILE_HEADER_SIZE + CHUNK_HEADER_SIZE * Len(chunks)
    IN  overhead + CalcChunksDataSize(chunks)

\* a number setUint16 stores
SetUint16(n) == n % 65536

\* a chunk as createImage writes it: the fields of its 12-byte header (type,
\* blocks, size of header and data) and the data that follow, by their size
ChunkHeader(type, blocks, totalSize, data) ==
    [type |-> SetUint16(type), blocks |-> blocks, totalSize |-> totalSize, data |-> data]

\* parseChunkHeader taking the size written as the size of the data
ParseChunkHeaderWhole(view) == SparseChunk(view.type, view.blocks, view.totalSize, 0)

\* parseChunkHeader: dataBytes is the size written less the 12 bytes of the
\* header; data is left to the consumer
ParseChunkHeader(view) ==
    SparseChunk(view.type, view.blocks, view.totalSize - CHUNK_HEADER_SIZE, 0)

\* the chunk splitBlob reads at the head of the blob: its header parsed, its
\* data the slice of dataBytes bytes that follows the header
ReadChunk(view) ==
    LET chunk == ParseChunkHeader(view)
    IN  [chunk EXCEPT !.data = chunk.dataBytes]

\* createImage: the 28-byte header, then every chunk's 12-byte header and data;
\* the header's chunk count is chunks.length and its crc32 is 0
CreateImage(header, chunks) ==
    [size   |-> CalcChunksSize(chunks),
     head   |-> HeaderView(FILE_HEADER_SIZE, FILE_MAGIC, MAJOR_VERSION, MINOR_VERSION,
                           FILE_HEADER_SIZE, CHUNK_HEADER_SIZE,
                           header.blockSize, header.blocks, Len(chunks), 0),
     chunks |-> [i \in 1..Len(chunks) |->
                    ChunkHeader(chunks[i].type, chunks[i].blocks,
                                CHUNK_HEADER_SIZE + chunks[i].data, chunks[i].data)]]

RECURSIVE FromRawChunks(_, _)
\* the loop of fromRaw over what is left of the blob
FromRawChunks(size, blockSize) ==
    IF size > 0
    THEN LET chunkSize == Min(size, RAW_CHUNK_SIZE)
         IN  <<SparseChunk(ChunkRaw, SetUint32(chunkSize, blockSize), chunkSize, chunkSize)>>
                \o FromRawChunks(size - chunkSize, blockSize)
    ELSE <<>>

\* fromRaw: a sparse image of 4096-byte blocks holding the blob as Raw chunks
FromRaw(blob) ==
    LET header == SparseHeader(4096, SetUint32(blob.size, 4096), 1, 0)
    IN  CreateImage(header, FromRawChunks(blob.size, header.blockSize))

\* a Skip chunk that stands for no block
SkipChunkEmpty(blocks) == SparseChunk(ChunkSkip, 0, 0, 0)

SkipChunk(blocks) == SparseChunk(ChunkSkip, blocks, 0, 0)
Split(data, bytes) == [data |-> data, bytes |-> bytes]

RECURSIVE SplitLoop(_, _, _, _, _, _, _)
\* the loop of splitBlob from chunk i on, and the final split after it;
\* yielded holds the splits yielded so far
SplitLoop(header, chunks, i, splitChunks, splitDataBytes, splitSize, yielded) ==
    IF i >= header.chunks
    THEN IF Len(splitChunks) > 0
            /\ (Len(splitChunks) > 1 \/ splitChunks[1].type # ChunkSkip)
         THEN Append(yielded, Split(CreateImage(header, splitChunks), splitDataBytes))
         ELSE yielded
    ELSE LET chunk == ReadChunk(chunks[i + 1])
             bytesRemaining == JsSub(splitSize, CalcChunksSize(splitChunks))
         IN  IF JsGe(bytesRemaining, chunk.dataBytes)
             THEN SplitLoop(header, chunks, i + 1, Append(splitChunks, chunk),
                            splitDataBytes + chunk.blocks * header.blockSize,
                            splitSize, yielded)
             ELSE LET splitBlocks == CalcChunksBlockSize(splitChunks)
                      finished == Append(splitChunks, SkipChunk(header.blocks - splitBlocks))
                  IN  SplitLoop(header, chunks, i + 1,
                                <<SkipChunk(splitBlocks), chunk>>, 0, splitSize,
                                Append(yielded,
                                       Split(CreateImage(header, finished), splitDataBytes)))

\* splitBlob without its shortcut for a blob that fits
SplitBlobAlwaysSplit(blob, splitSize) ==
    LET parsed == ParseFileHeader(blob.head)
    IN  IF parsed.k = "throw" THEN [splits |-> <<>>, thrown |-> Thrown(parsed.err)]
        ELSE IF parsed.k = "null" THEN [splits |-> <<>>, thrown |-> Thrown(ImageError)]
        ELSE [splits |-> SplitLoop([parsed.hdr EXCEPT !.crc32 = 0], blob.chunks, 0,
                                   <<>>, 0, splitSize, <<>>),
              thrown |-> None]

\* splitBlob: the splits the generator yields, in order, and the error it
\* throws after them, if any
SplitBlob(blob, splitSize) ==
    IF JsLe(blob.size, splitSize)
    THEN [splits |-> <<Split(blob, blob.size)>>, thrown |-> None]
    ELSE LET parsed == ParseFileHeader(blob.head)
         IN  IF parsed.k = "throw" THEN [splits |-> <<>>, thrown |-> Thrown(parsed.err)]
             ELSE IF parsed.k = "null" THEN [splits |-> <<>>, thrown |-> Thrown(ImageError)]
             ELSE [splits |-> SplitLoop([parsed.hdr EXCEPT !.crc32 = 0], blob.chunks, 0,
                                        <<>>, 0, splitSize, <<>>),
                   thrown |-> None]


(***************************************************************************)
(* The bootloader and the transport (the environment).                     *)
(***************************************************************************)
Yes == <<"y", "e", "s">>
No == <<"n", "o">>

\* a variable of the bootloader: known with a value, or unknown to it
Known(v) == [known |-> TRUE, v |-> v]
Absent == [known |-> FALSE, v |-> <<>>]

\* the variables of a bootloader; a bootloader (not fastbootd) with no snapshot
\* update under way and no super partition name, unless stated otherwise
DevConfig(hasSlot, slot, maxDl, logical) ==
    [hasSlot |-> hasSlot, slot |-> slot, maxDl |-> maxDl, logical |-> logical,
     userspace |-> Known(No), snapshot |-> Known(<<"n", "o", "n", "e">>),
     superName |-> Absent, reboot |-> ""]

SmallDownloads == <<"0", "x", "3", "0", "0", "0">>
LargeDownloads == <<"2", "0", "0", "0", "0", "0", "0", "0">>

\* the bootloaders the client is run against
DevConfigs ==
    {DevConfig(Known(h), Known(<<"a">>), Known(m), Known(l)) :
        h \in {Yes, No}, m \in {SmallDownloads, LargeDownloads}, l \in {Yes, No}}
    \cup {DevConfig(Known(Yes), Absent, Known(SmallDownloads), Known(No)),
          DevConfig(Absent, Absent, Absent, Absent),
          DevConfig(Known(No), Absent, Known(<<"z">>), Known(No))}

\* the partitions of the bootloaders, besides system
Partitions == {"bootloader", "radio", "boot", "init_boot", "vendor_boot", "vbmeta", "vendor",
               "avb_custom_key"}

GetvarTexts ==
    {"getvar:has-slot:system", "getvar:current-slot", "getvar:max-download-size",
     "getvar:is-logical:system", "getvar:is-logical:system_a", "getvar:is-logical:system_b",
     "getvar:is-logical:system_null", "getvar:product", "getvar:variant",
     "getvar:is-userspace", "getvar:snapshot-update-status", "getvar:super-partition-name",
     "getvar:version-bootloader", "getvar:has-slot:userdata_x"}
    \cup {"getvar:has-slot:" \o p : p \in Partitions}
    \cup {"getvar:is-logical:" \o p : p \in Partitions}

\* what the bootloader cfg holds for the variable asked by the command text
DevVar(cfg, text) ==
    CASE text = "getvar:has-slot:system" -> cfg.hasSlot
      [] text = "getvar:current-slot" -> cfg.slot
      [] text = "getvar:max-download-size" -> cfg.maxDl
      [] text = "getvar:product" -> Known(<<" ", "p", "\n">>)
      [] text = "getvar:variant" -> Known(<<>>)
      [] text = "getvar:is-userspace" -> cfg.userspace
      [] text = "getvar:snapshot-update-status" -> cfg.snapshot
      [] text = "getvar:super-partition-name" -> cfg.superName
      [] text = "getvar:version-bootloader" -> Known(<<"b", "1">>)
      [] text = "getvar:has-slot:userdata_x" -> Absent
      [] text = "getvar:has-slot:vbmeta" -> Known(Yes)
      [] text = "getvar:has-slot:init_boot" -> Known(<<"o", "d", "d">>)
      [] text \in {"getvar:has-slot:" \o p : p \in Partitions} -> cfg.hasSlot
      [] OTHER -> cfg.logical

\* the download sizes the bootloader accepts, as it echoes them, with their values
DevDownloads ==
    [h \in {<<"0", "0", "0", "0", "0", "0", "2", "8">>,
            <<"0", "0", "0", "0", "2", "0", "4", "4">>,
            <<"0", "0", "0", "0", "1", "0", "3", "4">>,
            <<"0", "0", "0", "0", "4", "0", "3", "4">>,
            <<"0", "0", "0", "0", "3", "0", "4", "4">>,
            <<"0", "0", "0", "0", "4", "0", "0", "0">>,
            <<"0", "0", "0", "0", "1", "3", "8", "8">>} |->
        CASE h = <<"0", "0", "0", "0", "0", "0", "2", "8">> -> 40
          [] h = <<"0", "0", "0", "0", "2", "0", "4", "4">> -> 8260
          [] h = <<"0", "0", "0", "0", "1", "0", "3", "4">> -> 4148
          [] h = <<"0", "0", "0", "0", "4", "0", "3", "4">> -> 16436
          [] h = <<"0", "0", "0", "0", "3", "0", "4", "4">> -> 12356
          [] h = <<"0", "0", "0", "0", "4", "0", "0", "0">> -> 16384
          [] OTHER -> 5000]

\* a size the bootloader answers when it does not echo the request
WrongEcho == <<"0", "0", "0", "0", "0", "0", "1", "0">>
WrongEchoSize == 1 * 16

FailPacket == FAIL \o <<"n", "o">>
InfoPacket == INFO \o <<"w", "a", "i", "t">>
\* a packet that starts with none of the four status words
OddPacket == <<"E", "R", "R", "R", "x">>

\* download commands for sizes the bootloader does not accept
RefusedDownloads ==
    {"download:" \o StrOf(h) : h \in {<<"0", "0", "0", "0", "0", "0", "0", "0">>,
                                       <<"0", "0", "0", "0", "0", "0", "0", "1">>,
                                       <<"0", "0", "0", "1", "0", "0", "0", "0">>,
                                       <<"1", "2", "3", "4", "5", "6", "7", "8">>,
                                       <<"f", "f", "f", "f", "f", "f", "f", "f">>}}

Answer(pkts, need, infos, faults) ==
    [pkts |-> pkts, need |-> need, infos |-> infos, faults |-> faults]

\* the terminal packet a bootloader cfg that works answers the command text
\* with, and the payload size it then expects
DevTerminal(cfg, text) ==
    IF text \in GetvarTexts
    THEN [pkt |-> IF DevVar(cfg, text).known THEN OKAY \o DevVar(cfg, text).v ELSE FailPacket,
          need |-> 0]
    ELSE IF \E h \in DOMAIN DevDownloads : text = "download:" \o StrOf(h)
    THEN LET h == CHOOSE g \in DOMAIN DevDownloads : text = "download:" \o StrOf(g)
         IN  [pkt |-> DATA \o h, need |-> DevDownloads[h]]
    ELSE IF text \in RefusedDownloads
    THEN [pkt |-> FailPacket, need |-> 0]
    ELSE [pkt |-> OKAY, need |-> 0]

\* the terminal packets of a bootloader that fails the command, or goes wrong
DevFaults(text) ==
    {[pkt |-> FailPacket, need |-> 0], [pkt |-> OddPacket, need |-> 0]}
    \cup IF \E h \in DOMAIN DevDownloads : text = "download:" \o StrOf(h)
         THEN {[pkt |-> DATA \o WrongEcho, need |-> WrongEchoSize], [pkt |-> OKAY, need |-> 0]}
         ELSE {}

\* packets of any shape, for a bootloader that keeps no rule (dev.arbitrary)
AnyPackets ==
    {tag \o body :
        tag \in {OKAY, INFO, DATA, FAIL, <<"F", "A", "xC3", "xA9", "L">>, <<"O", "K">>,
                 <<"o", "k", "a", "y">>, <<"xA9", "K", "A", "Y">>},
        body \in {<<>>, <<"1", "0">>, <<"xC3", "xA9">>}}

IsInfo(pkt) == Len(pkt) >= 4 /\ SubSeq(pkt, 1, 4) = INFO

\* the answers the bootloader may give to the command text: INFO lines (as
\* many as infos allows) and a terminal packet, or, if faults are left, a
\* failure or no answer at all
DevAnswers(text, infos, faults) ==
    LET terminals == IF dev.arbitrary
                     THEN {[pkt |-> p, need |-> 0, faults |-> 0] :
                                p \in {q \in AnyPackets : ~IsInfo(q)}}
                     ELSE {[pkt |-> DevTerminal(dev.cfg, text).pkt,
                            need |-> DevTerminal(dev.cfg, text).need, faults |-> 0]}
                          \cup {[pkt |-> t.pkt, need |-> t.need, faults |-> 1] :
                                    t \in IF faults > 0 THEN DevFaults(text) ELSE {}}
        lines == IF dev.arbitrary THEN {q \in AnyPackets : IsInfo(q)} ELSE {InfoPacket}
    IN  {Answer(ls \o <<t.pkt>>, t.need, Len(ls), t.faults) :
                ls \in UNION {[1..k -> lines] : k \in 0..infos}, t \in terminals}
        \cup IF faults > 0 /\ text \in GetvarTexts /\ ~dev.arbitrary
             THEN {Answer(<<>>, 0, 0, 1)}
             ELSE {}

\* the packets pkts as answers to command id, in the order sent
Sent(pkts, id) == [i \in 1..Len(pkts) |-> [pkt |-> pkts[i], for |-> id]]

\* the answers to the payload whose last byte has arrived
PayloadAnswers(faults) ==
    {Answer(<<OKAY>>, 0, 0, 0)} \cup IF faults > 0 THEN {Answer(<<FailPacket>>, 0, 0, 1)} ELSE {}

\* the slot the bootloader switches to on the command text, if it is one
SetActive(cfg, text) ==
    IF text = "set_active:b" THEN [cfg EXCEPT !.slot = Known(<<"b">>)] ELSE cfg

RebootCommands == {"reboot", "reboot-bootloader", "reboot-fastboot"}

\* the bootloader after the command text that it has answered with ans: a
\* reboot it has not refused is under way until the device leaves the bus
Commanded(cfg, text, ans) ==
    IF text \in RebootCommands /\ ans.faults = 0
    THEN [cfg EXCEPT !.reboot = text]
    ELSE SetActive(cfg, text)


(***************************************************************************)
(* The caller: issues the operations of prog one after the other, each     *)
(* awaited, and goes on after an operation that failed.                    *)
(***************************************************************************)
FlashLocals(partition, blob) ==
    [partition |-> partition, blob |-> blob, maxDlSize |-> JNaN, totalBytes |-> 0,
     isSparse |-> FALSE, gen |-> <<>>, genThrown |-> None, split |-> Split(blob, 0),
     splits |-> 0, sentBytes |-> 0]

\* the value the call before has returned, and the one before that
LastResult == trace[Len(trace)].r.v
BuiltBefore == trace[Len(trace) - 2].r.v

FrameOf(op) ==
    CASE op.op = "runCommand" -> Frame("runCommand", [command |-> op.command, gv |-> 0])
      [] op.op = "getVariable" -> Frame("getVariable", [varName |-> op.varName])
      [] op.op = "upload" -> Frame("upload", [partition |-> op.partition,
                                              buffer |-> op.buffer, xid |-> 0])
      [] op.op = "reboot" -> Frame("reboot", [target |-> op.target, wait |-> op.wait])
      [] op.op = "connect" -> Frame("connect", [seq |-> 0])
      [] op.op = "tryReboot" -> Frame("tryReboot", [target |-> op.target])
      [] op.op = "flashZip" -> Frame("flashZip", [entries |-> op.entries, wipe |-> op.wipe,
                                                  superName |-> <<>>])
      [] op.op = "waitForConnect" -> Frame("waitForConnect", [w |-> 0])
      [] op.op = "_sendRawPayload" ->
            Frame("_sendRawPayload", [buffer |-> op.buffer, i |-> 0,
                                      remainingBytes |-> op.buffer, xid |-> nextId])
      [] op.op = "runWithTimedProgress" ->
            Frame("runWithTimedProgress", [action |-> op.action, item |-> op.item,
                                           duration |-> op.duration, work |-> op.work])
      [] op.op = "splitBlob" -> Frame("splitBlob", [blob |-> op.blob, splitSize |-> op.splitSize,
                                                    gen |-> <<>>, thrown |-> None])
      [] op.op = "fromRaw" -> Frame("fromRaw", [blob |-> op.blob])
      [] op.op = "createImage" -> Frame("createImage", [header |-> op.header,
                                                        chunks |-> op.chunks])
      [] op.op = "parseFileHeader" -> Frame("parseFileHeader", [view |-> op.view])
      [] op.op = "parseBuilt" -> Frame("parseFileHeader", [view |-> LastResult.head])
      [] op.op = "parseBuiltChunks" -> Frame("parseChunkHeader", [views |-> BuiltBefore.chunks])
      [] OTHER -> Frame("flashBlob", FlashLocals(op.partition, op.blob))

ClientCall ==
    /\ stk = <<>> /\ ret.k = "none" /\ prog # <<>>
    /\ stk' = <<FrameOf(Head(prog))>>
    /\ prog' = Tail(prog)
    /\ trace' = Append(trace, [t |-> "call", op |-> Head(prog)])
    /\ UNCHANGED <<clock, ticking, conn, ret, wr, rd, inq, dev, timer, timedOut, nextId, budget, settles>>

ClientSettle ==
    /\ stk = <<>> /\ ret.k # "none"
    /\ trace' = Append(trace, [t |-> "settle", r |-> ret])
    /\ ret' = None
    /\ UNCHANGED <<clock, ticking, conn, prog, stk, wr, rd, inq, dev, timer, timedOut, nextId, budget, settles>>

(***************************************************************************)
(* runCommand and _readResponse.                                           *)
(***************************************************************************)
Writer(id, kind, n, text, gv) ==
    [id |-> id, kind |-> kind, n |-> n, text |-> text, main |-> TRUE, gv |-> gv]
Reader(id, main, gv) == [id |-> id, main |-> main, gv |-> gv, resp |-> EmptyResp]

\* the place a call was made from: the function and the await of the caller
Site(callers) == IF callers = <<>> THEN "" ELSE callers[1].fn \o "." \o callers[1].pc

\* the place flashZip is at, if the call chain starts in flashZip
Stage == IF stk # <<>> /\ stk[Len(stk)].fn = "flashZip" THEN stk[Len(stk)].pc ELSE ""

\* runCommand up to its transferOut: the length check, then the write
RunCommand ==
    /\ At("runCommand", "start")
    /\ IF Len(Top.a.command) > MaxCommandLength
       THEN /\ stk' = Rest
            /\ ret' = Thrown(RangeError)
            /\ UNCHANGED <<wr, nextId, trace>>
       ELSE /\ wr' = Append(wr, Writer(nextId, "cmd", Len(Top.a.command),
                                       Top.a.command, Top.a.gv))
            /\ trace' = Append(trace, [t |-> "cmd", id |-> nextId, text |-> Top.a.command,
                                       gv |-> Top.a.gv, site |-> Site(Rest),
                                       stage |-> Stage])
            /\ nextId' = nextId + 1
            /\ stk' = <<[Top EXCEPT !.pc = "transferOut"]>> \o Rest
            /\ ret' = None
    /\ UNCHANGED <<clock, ticking, conn, prog, rd, inq, dev, timer, timedOut, budget, settles>>

\* _readResponse up to its first transferIn
ReadResponse ==
    /\ At("_readResponse", "start")
    /\ rd' = Append(rd, Reader(Top.a.id, TRUE, Top.a.gv))
    /\ stk' = <<[Top EXCEPT !.pc = "transferIn"]>> \o Rest
    /\ UNCHANGED <<clock, ticking, conn, prog, ret, wr, inq, dev, timer, timedOut, nextId, budget, trace, settles>>

(***************************************************************************)
(* runWithTimeout.                                                         *)
(***************************************************************************)
\* runWithTimeout without its timedOut flag
NotTimedOutUnchecked(gv) == TRUE

\* the test `if (!timedOut)` of the callbacks that pass the promise through
NotTimedOut(gv) == gv \notin timedOut

\* the then/catch/finally callbacks of runWithTimeout for call gv, run when
\* the promise it was given has settled with outcome
PassThrough(gv, outcome) ==
    /\ settles' = IF NotTimedOut(gv)
                  THEN Append(settles, [gv |-> gv, r |-> outcome]) ELSE settles
    /\ timer' = IF NotTimedOut(gv) /\ timer = gv THEN 0 ELSE timer

\* the promise given to runWithTimeout has settled while the caller awaits it
RunWithTimeoutDone ==
    /\ Resumed("runWithTimeout", "await")
    /\ PassThrough(Top.a.gv, ret)
    /\ stk' = Rest
    /\ UNCHANGED <<clock, ticking, conn, prog, ret, wr, rd, inq, dev, timedOut, nextId, budget, trace>>

Orphaned(q) == [i \in 1..Len(q) |-> [q[i] EXCEPT !.main = FALSE]]

\* the setTimeout callback of runWithTimeout: the caller gets TimeoutError and
\* the command it was awaiting goes on without it
TimerFire ==
    /\ Blocked /\ timer # 0 /\ budget.timeouts # 0
    /\ budget' = [budget EXCEPT !.timeouts = IF @ > 0 THEN @ - 1 ELSE @]
    /\ timedOut' = timedOut \cup {timer}
    /\ settles' = Append(settles, [gv |-> timer, r |-> Thrown(TimeoutError)])
    /\ timer' = 0
    /\ IF Len(stk) >= 2 /\ stk[2].fn = "runWithTimeout" /\ stk[2].a.gv = timer
       THEN /\ stk' = Tail(Rest)
            /\ ret' = Thrown(TimeoutError)
            /\ wr' = Orphaned(wr)
            /\ rd' = Orphaned(rd)
       ELSE UNCHANGED <<stk, ret, wr, rd>>
    /\ UNCHANGED <<clock, ticking, conn, prog, inq, dev, nextId, trace>>

(***************************************************************************)
(* Transport events.                                                       *)
(***************************************************************************)
\* The bootloader accepts the oldest pending write, which resolves its
\* transferOut: a command is answered (or counted as payload while a download
\* is open), and runCommand goes on to _readResponse.
DevRecv ==
    /\ Blocked /\ wr # <<>>
    /\ LET w == Head(wr)
           left == IF w.n >= dev.need THEN 0 ELSE dev.need - w.n
       IN  /\ wr' = Tail(wr)
           /\ IF dev.need > 0
              THEN /\ dev' = [dev EXCEPT !.need = left]
                   /\ IF left = 0
                      THEN \E ans \in PayloadAnswers(budget.faults) :
                                /\ inq' = inq \o Sent(ans.pkts, w.id)
                                /\ budget' = [budget EXCEPT !.faults = @ - ans.faults]
                      ELSE inq' = inq /\ budget' = budget
              ELSE IF w.kind = "cmd"
              THEN \E ans \in DevAnswers(w.text, budget.info, budget.faults) :
                        /\ inq' = inq \o Sent(ans.pkts, w.id)
                        /\ dev' = [dev EXCEPT !.need = ans.need,
                                              !.cfg = Commanded(@, w.text, ans)]
                        /\ budget' = [budget EXCEPT !.info = @ - ans.infos,
                                                    !.faults = @ - ans.faults]
              ELSE UNCHANGED <<inq, dev, budget>>
           /\ IF ~w.main
              THEN /\ rd' = IF w.kind = "cmd" THEN Append(rd, Reader(w.id, FALSE, w.gv)) ELSE rd
                   /\ UNCHANGED <<stk, ret>>
              ELSE IF w.kind = "cmd"
              THEN /\ stk' = <<Frame("_readResponse", [id |-> w.id, gv |-> w.gv])>> \o Rest
                   /\ UNCHANGED <<rd, ret>>
              ELSE /\ ret' = Ok(Undefined)
                   /\ UNCHANGED <<stk, rd>>
    /\ UNCHANGED <<clock, ticking, conn, prog, timer, timedOut, nextId, trace, settles>>

\* The oldest pending transferIn takes the oldest packet, and the loop of the
\* _readResponse that issued it makes one pass: on INFO it reads again, else
\* it settles its runCommand.
Deliver ==
    /\ Blocked /\ rd # <<>> /\ inq # <<>>
    /\ LET r == Head(rd)
           p == Head(inq)
           step == ReadResponseStep(r.resp, p.pkt)
           outcome == IF step.k = "throw" THEN Thrown(step.err) ELSE Ok(step.resp)
       IN  /\ inq' = Tail(inq)
           /\ trace' = Append(trace, [t |-> "in", by |-> r.id, for |-> p.for, pkt |-> p.pkt])
           /\ IF step.k = "loop"
              THEN /\ rd' = Append(Tail(rd), [r EXCEPT !.resp = step.resp])
                   /\ UNCHANGED <<stk, ret, settles, timer>>
              ELSE /\ rd' = Tail(rd)
                   /\ IF r.main
                      THEN /\ stk' = Rest
                           /\ ret' = outcome
                           /\ UNCHANGED <<settles, timer>>
                      ELSE /\ PassThrough(r.gv, outcome)
                           /\ UNCHANGED <<stk, ret>>
    /\ UNCHANGED <<clock, ticking, conn, prog, wr, dev, timedOut, nextId, budget>>

\* the transfer e rejects: its caller, or the command left behind by a timeout
Rejected(e) ==
    IF e.main
    THEN /\ ret' = Thrown(NetworkError)
         /\ stk' = IF Top.fn = "_sendRawPayload" THEN stk ELSE Rest
         /\ UNCHANGED <<settles, timer>>
    ELSE /\ PassThrough(e.gv, Thrown(NetworkError))
         /\ UNCHANGED <<stk, ret>>

Failed(e) == [t |-> "failed", id |-> e.id, main |-> e.main]

\* the transport fails the oldest pending transferOut or transferIn
TransferError ==
    /\ Blocked /\ budget.faults > 0
    /\ budget' = [budget EXCEPT !.faults = @ - 1]
    /\ \/ /\ wr # <<>>
          /\ wr' = Tail(wr)
          /\ rd' = rd
          /\ Rejected(Head(wr))
          /\ trace' = Append(trace, Failed(Head(wr)))
       \/ /\ rd # <<>>
          /\ rd' = Tail(rd)
          /\ wr' = wr
          /\ Rejected(Head(rd))
          /\ trace' = Append(trace, Failed(Head(rd)))
    /\ UNCHANGED <<clock, ticking, conn, prog, inq, dev, timedOut, nextId>>

(***************************************************************************)
(* getVariable.                                                            *)
(***************************************************************************)
\* getVariable up to its await: runCommand is called, then runWithTimeout
\* arms its timer
GetVariable ==
    /\ At("getVariable", "start")
    /\ stk' = <<Frame("runCommand", [command |-> "getvar:" \o Top.a.varName, gv |-> nextId]),
                [fn |-> "runWithTimeout", pc |-> "await", a |-> [gv |-> nextId]],
                [Top EXCEPT !.pc = "await"]>> \o Rest
    /\ timer' = nextId
    /\ nextId' = nextId + 1
    /\ UNCHANGED <<clock, ticking, conn, prog, ret, wr, rd, inq, dev, timedOut, budget, trace, settles>>

\* getVariable with every FastbootError taken for a missing variable
GetVariableResultAnyStatus(r) ==
    IF r.k = "err"
    THEN IF r.v.name = "FastbootError" THEN Ok(Null) ELSE r
    ELSE IF r.v.text # <<>> THEN Ok(Text(Trim(r.v.text))) ELSE Ok(Null)

\* what getVariable makes of the settled runWithTimeout: FAIL is null, any
\* other error is thrown again, and a text is trimmed (an empty one is null)
GetVariableResult(r) ==
    IF r.k = "err"
    THEN IF r.v.name = "FastbootError" /\ r.v.status = FAIL THEN Ok(Null) ELSE r
    ELSE IF r.v.text # <<>> THEN Ok(Text(Trim(r.v.text))) ELSE Ok(Null)

GetVariableDone ==
    /\ Resumed("getVariable", "await")
    /\ stk' = Rest
    /\ ret' = GetVariableResult(ret)
    /\ UNCHANGED <<clock, ticking, conn, prog, wr, rd, inq, dev, timer, timedOut, nextId, budget, trace, settles>>


(***************************************************************************)
(* Returning, throwing and calling.                                        *)
(***************************************************************************)
Return(v) == stk' = Rest /\ ret' = Ok(v)
Throw(e) == stk' = Rest /\ ret' = Thrown(e)
Rethrow == stk' = Rest /\ ret' = ret
\* the innermost frame becomes f and awaits the call of callee
Call(f, callee) == stk' = <<callee, f>> \o Rest /\ ret' = None

(***************************************************************************)
(* _getDownloadSize.                                                       *)
(***************************************************************************)
GetDownloadSize ==
    /\ At("_getDownloadSize", "start")
    /\ Call([Top EXCEPT !.pc = "await"], Frame("getVariable", [varName |-> "max-download-size"]))
    /\ UNCHANGED <<clock, ticking, conn, prog, wr, rd, inq, dev, timer, timedOut, nextId, budget, trace, settles>>

\* the value _getDownloadSize returns for the settled getVariable: a thrown
\* error and the TypeError of null.toLowerCase() are caught
DownloadSizeOf(r) ==
    IF r.k = "err" \/ r.v.null THEN J(DEFAULT_DOWNLOAD_SIZE)
    ELSE LET resp == ToLowerCase(r.v.s)
         IN  IF resp # <<>>
             THEN JOf(MathMin(ParseInt16(resp), MAX_DOWNLOAD_SIZE))
             ELSE J(DEFAULT_DOWNLOAD_SIZE)

GetDownloadSizeDone ==
    /\ Resumed("_getDownloadSize", "await")
    /\ Return(DownloadSizeOf(ret))
    /\ UNCHANGED <<clock, ticking, conn, prog, wr, rd, inq, dev, timer, timedOut, nextId, budget, trace, settles>>

(***************************************************************************)
(* _sendRawPayload and upload.                                             *)
(***************************************************************************)
Progress(num, den) == [t |-> "progress", num |-> num, den |-> den]

\* the callback flashBlob, in frame f, hands to upload: the fraction
\* (sentBytes + progress * split.bytes) / totalBytes for progress = num / den
FlashProgress(f, num, den) ==
    [t |-> "flashProgress", num |-> f.a.sentBytes * den + num * f.a.split.bytes,
     den |-> den * f.a.totalBytes]

\* onProgress(num / den) of _sendRawPayload: the callback given to upload,
\* which is that of flashBlob when flashBlob has called upload
OnProgress(num, den) ==
    <<Progress(num, den)>>
        \o (IF stk[Len(stk)].fn = "flashBlob"
            THEN <<FlashProgress(stk[Len(stk)], num, den)>> ELSE <<>>)

\* _sendRawPayload with every transfer of the full size
ChunkLengthWhole(byteLength, i) == BULK_TRANSFER_SIZE

\* the bytes of buffer.slice(i * BULK_TRANSFER_SIZE, (i + 1) * BULK_TRANSFER_SIZE)
ChunkLength(byteLength, i) ==
    Min(byteLength, (i + 1) * BULK_TRANSFER_SIZE) - Min(byteLength, i * BULK_TRANSFER_SIZE)

\* _sendRawPayload in frame f, from the test of its loop to the next
\* transferOut, or to its end
SendRawPayloadTurn(f) ==
    IF f.a.remainingBytes > 0
    THEN LET chunk == ChunkLength(f.a.buffer, f.a.i)
         IN  /\ wr' = Append(wr, Writer(f.a.xid, "data", chunk, "", 0))
             /\ trace' = trace
                    \o (IF f.a.i % 10 = 0
                        THEN OnProgress(f.a.buffer - f.a.remainingBytes, f.a.buffer)
                        ELSE <<>>)
                    \o <<[t |-> "data", id |-> f.a.xid, n |-> chunk,
                          at |-> Min(f.a.buffer, f.a.i * BULK_TRANSFER_SIZE)]>>
             /\ stk' = <<[f EXCEPT !.pc = "transferOut"]>> \o Rest
             /\ ret' = None
    ELSE /\ trace' = trace \o OnProgress(1, 1)
         /\ Return(Undefined)
         /\ wr' = wr

SendRawPayload ==
    /\ At("_sendRawPayload", "start")
    /\ SendRawPayloadTurn(Top)
    /\ UNCHANGED <<clock, ticking, conn, prog, rd, inq, dev, timer, timedOut, nextId, budget, settles>>

SendRawPayloadSent ==
    /\ Resumed("_sendRawPayload", "transferOut")
    /\ IF ret.k = "err"
       THEN Rethrow /\ UNCHANGED <<wr, trace>>
       ELSE SendRawPayloadTurn(
                [Top EXCEPT !.a.remainingBytes = @ - ChunkLength(Top.a.buffer, Top.a.i),
                            !.a.i = @ + 1])
    /\ UNCHANGED <<clock, ticking, conn, prog, rd, inq, dev, timer, timedOut, nextId, budget, settles>>

\* the hex digits of byteLength without the padding
XferHexUnpadded(byteLength) == ToString16(byteLength)

\* the 8 hex digits upload asks for: byteLength.toString(16).padStart(8, "0")
XferHex(byteLength) == PadStart(ToString16(byteLength), XferHexDigits, "0")

Upload ==
    /\ At("upload", "start")
    /\ IF Len(XferHex(Top.a.buffer)) # XferHexDigits
       THEN Throw(FastbootError(FAIL, <<"Transfer size overflow">>))
       ELSE Call([Top EXCEPT !.pc = "download"],
                 Frame("runCommand",
                       [command |-> "download:" \o StrOf(XferHex(Top.a.buffer)), gv |-> 0]))
    /\ UNCHANGED <<clock, ticking, conn, prog, wr, rd, inq, dev, timer, timedOut, nextId, budget, trace, settles>>

\* upload without the comparison of the size echoed
DownloadAcceptedAnySize(downloadResp, byteLength) == downloadResp.hasData

\* whether upload goes on to the payload after the answer downloadResp
DownloadAccepted(downloadResp, byteLength) ==
    downloadResp.hasData /\ ParseInt16(downloadResp.dataSize) = byteLength

UploadDownloaded ==
    /\ Resumed("upload", "download")
    /\ IF ret.k = "err"
       THEN Rethrow /\ nextId' = nextId
       ELSE IF ~ret.v.hasData
       THEN Throw(FastbootError(FAIL, <<"Unexpected response to download command">>))
                /\ nextId' = nextId
       ELSE IF ~DownloadAccepted(ret.v, Top.a.buffer)
       THEN Throw(FastbootError(FAIL, <<"Bootloader wants a different size">>))
                /\ nextId' = nextId
       ELSE /\ Call([Top EXCEPT !.pc = "payload", !.a.xid = nextId],
                    Frame("_sendRawPayload",
                          [buffer |-> IntOf(Top.a.buffer), i |-> 0,
                           remainingBytes |-> IntOf(Top.a.buffer), xid |-> nextId]))
            /\ nextId' = nextId + 1
    /\ UNCHANGED <<clock, ticking, conn, prog, wr, rd, inq, dev, timer, timedOut, budget, trace, settles>>

UploadSent ==
    /\ Resumed("upload", "payload")
    /\ IF ret.k = "err"
       THEN Rethrow
       ELSE Call([Top EXCEPT !.pc = "final"],
                 Frame("_readResponse", [id |-> Top.a.xid, gv |-> 0]))
    /\ UNCHANGED <<clock, ticking, conn, prog, wr, rd, inq, dev, timer, timedOut, nextId, budget, trace, settles>>

UploadDone ==
    /\ Resumed("upload", "final")
    /\ IF ret.k = "err" THEN Rethrow ELSE Return(Undefined)
    /\ UNCHANGED <<clock, ticking, conn, prog, wr, rd, inq, dev, timer, timedOut, nextId, budget, trace, settles>>

(***************************************************************************)
(* reboot.                                                                 *)
(***************************************************************************)
Reboot ==
    /\ At("reboot", "start")
    /\ Call([Top EXCEPT !.pc = "command"],
            Frame("runCommand",
                  [command |-> IF Len(Top.a.target) > 0
                               THEN "reboot-" \o Top.a.target ELSE "reboot",
                   gv |-> 0]))
    /\ UNCHANGED <<clock, ticking, conn, prog, wr, rd, inq, dev, timer, timedOut, nextId, budget, trace, settles>>

RebootDone ==
    /\ Resumed("reboot", "command")
    /\ IF ret.k = "err"
       THEN Rethrow
       ELSE IF Top.a.wait
       THEN Call([Top EXCEPT !.pc = "wait"], Frame("waitForConnect", [w |-> 0]))
       ELSE Return(Undefined)
    /\ UNCHANGED <<clock, ticking, conn, prog, wr, rd, inq, dev, timer, timedOut, nextId, budget, trace, settles>>


(***************************************************************************)
(* connect, waitForConnect, _validateAndConnectDevice and the listeners of *)
(* the USB connect and disconnect events.  A validate sequence is the      *)
(* chain open, reset, selectConfiguration, claimInterface of one call of   *)
(* _validateAndConnectDevice; several may be under way at once, one for    *)
(* every connect event and one for connect().                              *)
(***************************************************************************)
UsbError(message) == Err("UsbError", <<>>, <<message>>)
\* requestDevice when there is no device to choose
NotFoundError == Err("NotFoundError", <<>>, <<>>)

Endpoint(type, direction, endpointNumber) ==
    [type |-> type, direction |-> direction, endpointNumber |-> endpointNumber]
UsbDevice(id, endpoints) == [id |-> id, endpoints |-> endpoints]
\* this.device === null
NoDevice == UsbDevice(0, <<>>)

Checked(r, epIn, epOut) == [r |-> r, epIn |-> epIn, epOut |-> epOut]

RECURSIVE CheckEndpoints(_, _, _)
\* the loop over ife.endpoints; an endpoint number of 0 stands for null
CheckEndpoints(endpoints, epIn, epOut) ==
    IF endpoints = <<>> THEN Checked(Ok(Undefined), epIn, epOut)
    ELSE LET endpoint == Head(endpoints)
         IN  IF endpoint.type # "bulk"
             THEN Checked(Thrown(UsbError("Interface endpoint is not bulk")), epIn, epOut)
             ELSE IF endpoint.direction = "in"
             THEN IF epIn = 0
                  THEN CheckEndpoints(Tail(endpoints), endpoint.endpointNumber, epOut)
                  ELSE Checked(Thrown(UsbError("Interface has multiple IN endpoints")),
                               epIn, epOut)
             ELSE IF endpoint.direction = "out"
             THEN IF epOut = 0
                  THEN CheckEndpoints(Tail(endpoints), epIn, endpoint.endpointNumber)
                  ELSE Checked(Thrown(UsbError("Interface has multiple OUT endpoints")),
                               epIn, epOut)
             ELSE CheckEndpoints(Tail(endpoints), epIn, epOut)

\* _validateAndConnectDevice up to its try block, on the client state c
ValidateDevice(c) ==
    IF c.device = NoDevice
    THEN Checked(Thrown(UsbError("Attempted to connect to null device")), c.epIn, c.epOut)
    ELSE IF Len(c.device.endpoints) # 2
    THEN Checked(Thrown(UsbError("Interface has wrong number of endpoints")), c.epIn, c.epOut)
    ELSE CheckEndpoints(c.device.endpoints, 0, 0)

\* one call of _validateAndConnectDevice that has reached its try block
Sequence(id, from, hasPromiseReject) ==
    [id |-> id, from |-> from, pc |-> "open", hasPromiseReject |-> hasPromiseReject]

\* the USB side after the constructor, with the device plugged attached to
\* the host and a user agent that is, or is not, Android
Constructed(plugged, android, connects) ==
    [device |-> NoDevice, epIn |-> 0, epOut |-> 0, registeredUsbListeners |-> FALSE,
     connectResolve |-> 0, connectReject |-> 0, disconnectResolve |-> FALSE,
     seqs |-> <<>>, nextSeq |-> 1, nextWaiter |-> 1,
     plugged |-> plugged, android |-> android, connects |-> connects]

FastbootEndpoints == <<Endpoint("bulk", "in", 1), Endpoint("bulk", "out", 1)>>
\* a fastboot device, and devices whose interface is not a fastboot one
Phone == UsbDevice(1, FastbootEndpoints)
UsbDevices ==
    {Phone,
     UsbDevice(2, <<Endpoint("bulk", "in", 1)>>),
     UsbDevice(3, <<Endpoint("interrupt", "in", 1), Endpoint("bulk", "out", 1)>>),
     UsbDevice(4, <<Endpoint("bulk", "out", 1), Endpoint("bulk", "out", 2)>>)}

\* the USB side after connect() has succeeded on the phone
Connected ==
    [Constructed(Phone, FALSE, 0) EXCEPT !.device = Phone, !.epIn = 1, !.epOut = 1,
                                         !.registeredUsbListeners = TRUE, !.nextSeq = 2]

\* an executor that keeps resolve and leaves reject as it is
RegisterResolveOnly(c, w) == [c EXCEPT !.connectResolve = w, !.nextWaiter = w + 1]

\* the Promise executor of waitForConnect
Register(c, w) == [c EXCEPT !.connectResolve = w, !.connectReject = w, !.nextWaiter = w + 1]

\* c with a call of _validateAndConnectDevice made from `from`
Validate(c, from, hasPromiseReject) ==
    LET v == ValidateDevice(c)
    IN  [r |-> v.r,
         c |-> [c EXCEPT !.epIn = v.epIn, !.epOut = v.epOut, !.nextSeq = @ + 1,
                         !.seqs = IF v.r.k = "ok"
                                  THEN Append(@, Sequence(c.nextSeq, from, hasPromiseReject))
                                  ELSE @]]

SequenceStarted(c, from) == [t |-> "sequence", seq |-> c.nextSeq, from |-> from]
\* a call of _validateAndConnectDevice has settled with r at its step `at`:
\* the waiter it has settled (0 if none) and whether the connect listener
\* has thrown the error again
Outcome(seq, from, at, r, settled, unhandled) ==
    [t |-> "outcome", seq |-> seq, from |-> from, at |-> at, r |-> r,
     settled |-> settled, unhandled |-> unhandled]

\* the catch block of the connect listener
ListenerRethrows(hasPromiseReject) == ~hasPromiseReject

\* connect(): the device is taken, the listeners are registered once, and the
\* device is validated
Connect ==
    /\ At("connect", "start")
    /\ IF conn.plugged = NoDevice
       THEN /\ Throw(NotFoundError)
            /\ UNCHANGED <<clock, ticking, conn, trace>>
       ELSE LET c == [conn EXCEPT !.device = conn.plugged, !.registeredUsbListeners = TRUE]
                v == Validate(c, "connect", FALSE)
            IN  /\ conn' = v.c
                /\ IF v.r.k = "err"
                   THEN /\ Throw(v.r.v)
                        /\ trace' = trace \o <<SequenceStarted(c, "connect"),
                                                Outcome(c.nextSeq, "connect", "validate",
                                                        v.r, 0, FALSE)>>
                   ELSE /\ stk' = <<[Top EXCEPT !.pc = "validate", !.a.seq = c.nextSeq]>>
                                    \o Rest
                        /\ ret' = None
                        /\ trace' = Append(trace, SequenceStarted(c, "connect"))
    /\ UNCHANGED <<clock, ticking, prog, wr, rd, inq, dev, timer, timedOut, nextId, budget, settles>>

Waiting(w) == [t |-> "waiter", w |-> w]

\* waitForConnect that does not wait for the disconnect event
WaitForConnectNoDisconnect ==
    /\ At("waitForConnect", "start")
    /\ ret' = None
    /\ conn' = Register(conn, conn.nextWaiter)
    /\ stk' = <<[Top EXCEPT !.pc = "promise", !.a.w = conn.nextWaiter]>> \o Rest
    /\ trace' = trace \o (IF conn.android THEN <<[t |-> "onReconnect"]>> ELSE <<>>)
                      \o <<Waiting(conn.nextWaiter)>>
    /\ UNCHANGED <<clock, ticking, prog, wr, rd, inq, dev, timer, timedOut, nextId, budget, settles>>

\* waitForConnect up to its first await
WaitForConnect ==
    /\ At("waitForConnect", "start")
    /\ ret' = None
    /\ IF conn.android /\ conn.device # NoDevice
       THEN /\ conn' = [conn EXCEPT !.disconnectResolve = TRUE]
            /\ stk' = <<[Top EXCEPT !.pc = "disconnect"]>> \o Rest
            /\ trace' = trace
       ELSE /\ conn' = Register(conn, conn.nextWaiter)
            /\ stk' = <<[Top EXCEPT !.pc = "promise", !.a.w = conn.nextWaiter]>> \o Rest
            /\ trace' = trace \o (IF conn.android THEN <<[t |-> "onReconnect"]>> ELSE <<>>)
                              \o <<Waiting(conn.nextWaiter)>>
    /\ UNCHANGED <<clock, ticking, prog, wr, rd, inq, dev, timer, timedOut, nextId, budget, settles>>

\* the disconnect listener has a waitForDisconnect to resolve
Heard == conn.registeredUsbListeners /\ conn.plugged = conn.device /\ conn.disconnectResolve

\* The disconnect listener, as the device leaves the bus: a waitForDisconnect
\* that is pending resolves, and the waitForConnect that awaited it calls
\* onReconnect and registers its waiter.
DisconnectListener ==
    IF Heard
    THEN /\ conn' = [Register(conn, conn.nextWaiter) EXCEPT !.plugged = NoDevice,
                                                            !.disconnectResolve = FALSE]
         /\ IF At("waitForConnect", "disconnect")
            THEN stk' = <<[Top EXCEPT !.pc = "promise", !.a.w = conn.nextWaiter]>> \o Rest
            ELSE stk' = stk
         /\ trace' = trace \o <<[t |-> "onReconnect"], Waiting(conn.nextWaiter)>>
    ELSE /\ conn' = [conn EXCEPT !.plugged = NoDevice]
         /\ UNCHANGED <<stk, trace>>

\* the device is taken off the bus
Disconnect ==
    /\ Blocked /\ conn.plugged # NoDevice
    /\ DisconnectListener
    /\ UNCHANGED <<clock, ticking, prog, ret, wr, rd, inq, dev, timer, timedOut, nextId, budget, settles>>

\* The device restarts as the reboot command has told it: it leaves the bus,
\* what it has sent and the host has not read is lost, and a transferIn that is
\* pending rejects.  It comes back, as fastbootd or as the bootloader, with a
\* connect event.
DeviceReboots ==
    /\ Blocked /\ dev.cfg.reboot # "" /\ conn.plugged # NoDevice /\ wr = <<>>
    /\ dev' = [dev EXCEPT !.need = 0, !.cfg.reboot = "",
                          !.cfg.userspace = IF dev.cfg.reboot = "reboot-fastboot"
                                            THEN Known(Yes) ELSE Known(No)]
    /\ inq' = <<>>
    /\ rd' = <<>>
    /\ IF \E i \in 1..Len(rd) : rd[i].main
       THEN /\ conn' = [conn EXCEPT !.plugged = NoDevice]
            /\ stk' = Rest
            /\ ret' = Thrown(NetworkError)
            /\ trace' = Append(trace, [t |-> "failed", id |-> Top.a.id, main |-> TRUE])
       ELSE /\ DisconnectListener
            /\ ret' = ret
    /\ UNCHANGED <<clock, ticking, prog, wr, timer, timedOut, nextId, budget, settles>>

\* The connect listener up to its await: a device d joins the bus.
ConnectEvent ==
    /\ Blocked /\ conn.plugged = NoDevice /\ conn.connects > 0
    /\ \E d \in UsbDevices :
        IF ~conn.registeredUsbListeners
        THEN /\ conn' = [conn EXCEPT !.plugged = d, !.connects = @ - 1]
             /\ trace' = trace
        ELSE LET c == [conn EXCEPT !.plugged = d, !.connects = @ - 1, !.device = d]
                 hasPromiseReject == conn.connectReject # 0
                 v == Validate(c, "event", hasPromiseReject)
             IN  /\ conn' = v.c
                 /\ trace' = trace \o <<SequenceStarted(c, "event")>>
                                   \o (IF v.r.k = "err"
                                       THEN <<Outcome(c.nextSeq, "event", "validate", v.r, 0,
                                                      ListenerRethrows(hasPromiseReject))>>
                                       ELSE <<>>)
    /\ UNCHANGED <<clock, ticking, prog, stk, ret, wr, rd, inq, dev, timer, timedOut, nextId, budget, settles>>

Without(q, i) == SubSeq(q, 1, i - 1) \o SubSeq(q, i + 1, Len(q))
\* the sequence without its reset
NextStepNoReset(pc) ==
    CASE pc = "open" -> "selectConfiguration" [] OTHER -> "claimInterface"

NextStep(pc) ==
    CASE pc = "open" -> "reset" [] pc = "reset" -> "selectConfiguration"
      [] OTHER -> "claimInterface"

\* the call awaiting the sequence s, or the waiter w it has settled, goes on
Awaited(s, w, r) ==
    IF \/ s.from = "connect" /\ At("connect", "validate") /\ Top.a.seq = s.id
       \/ w # 0 /\ At("waitForConnect", "promise") /\ Top.a.w = w
    THEN stk' = Rest /\ ret' = r
    ELSE UNCHANGED <<stk, ret>>

\* A USB operation of a validate sequence resolves; after claimInterface the
\* sequence is through and resolves the waiter, if there is one.
UsbOpDone ==
    /\ Blocked
    /\ \E i \in 1..Len(conn.seqs) :
        LET s == conn.seqs[i]
        IN  IF s.pc # "claimInterface"
            THEN /\ conn' = [conn EXCEPT !.seqs[i].pc = NextStep(s.pc)]
                 /\ UNCHANGED <<stk, ret, trace>>
            ELSE /\ conn' = [conn EXCEPT !.seqs = Without(@, i),
                                         !.connectResolve = 0,
                                         !.connectReject = IF conn.connectResolve # 0
                                                           THEN 0 ELSE @]
                 /\ trace' = Append(trace, Outcome(s.id, s.from, s.pc, Ok(Undefined),
                                                   conn.connectResolve, FALSE))
                 /\ Awaited(s, conn.connectResolve, Ok(Undefined))
    /\ UNCHANGED <<clock, ticking, prog, wr, rd, inq, dev, timer, timedOut, nextId, budget, settles>>

\* A USB operation of a validate sequence rejects: a failed reset is passed
\* over; any other goes to the catch block, which rejects the waiter if
\* there is one and throws the error again, to connect() or to the listener.
UsbOpFailed ==
    /\ Blocked /\ budget.faults > 0
    /\ budget' = [budget EXCEPT !.faults = @ - 1]
    /\ \E i \in 1..Len(conn.seqs) :
        LET s == conn.seqs[i]
        IN  IF s.pc = "reset"
            THEN /\ conn' = [conn EXCEPT !.seqs[i].pc = NextStep(s.pc)]
                 /\ UNCHANGED <<stk, ret, trace>>
            ELSE /\ conn' = [conn EXCEPT !.seqs = Without(@, i),
                                         !.connectReject = 0,
                                         !.connectResolve = IF conn.connectReject # 0
                                                            THEN 0 ELSE @]
                 /\ trace' = Append(trace,
                                    Outcome(s.id, s.from, s.pc, Thrown(NetworkError),
                                            conn.connectReject,
                                            s.from = "event"
                                                /\ ListenerRethrows(s.hasPromiseReject)))
                 /\ Awaited(s, conn.connectReject, Thrown(NetworkError))
    /\ UNCHANGED <<clock, ticking, prog, wr, rd, inq, dev, timer, timedOut, nextId, settles>>

(***************************************************************************)
(* flashBlob.                                                              *)
(***************************************************************************)
FlashQuiet == UNCHANGED <<clock, ticking, conn, prog, wr, rd, inq, dev, timer, timedOut, nextId, budget, settles>>

\* the suffix of the slot that was current at the first call
SlotSuffixKept(v) == "_a"

\* `"_" + value` for the string or null a getVariable returned
SlotSuffix(v) == "_" \o (IF v.null THEN "null" ELSE StrOf(v.s))

\* the size of the blob, whatever its header says
TotalBytesOfFile(blob) == blob.size

\* the size flashBlob takes as the total: blocks * blockSize of the sparse
\* header if the first 28 bytes parse as one, the blob's size otherwise
\* (also when parseFileHeader throws)
TotalBytes(blob) ==
    LET parsed == ParseFileHeader(blob.head)
    IN  IF parsed.k = "ok" THEN parsed.hdr.blocks * parsed.hdr.blockSize ELSE blob.size
IsSparse(blob) == ParseFileHeader(blob.head).k = "ok"

FlashBlob ==
    /\ At("flashBlob", "start")
    /\ Call([Top EXCEPT !.pc = "hasSlot"],
            Frame("getVariable", [varName |-> "has-slot:" \o Top.a.partition]))
    /\ trace' = trace
    /\ FlashQuiet

FlashBlobHasSlot ==
    /\ Resumed("flashBlob", "hasSlot")
    /\ IF ret.k = "err"
       THEN Rethrow
       ELSE IF ret.v = Text(Yes)
       THEN Call([Top EXCEPT !.pc = "currentSlot"],
                 Frame("getVariable", [varName |-> "current-slot"]))
       ELSE Call([Top EXCEPT !.pc = "maxDlSize"], Frame("_getDownloadSize", [x |-> 0]))
    /\ trace' = trace
    /\ FlashQuiet

FlashBlobCurrentSlot ==
    /\ Resumed("flashBlob", "currentSlot")
    /\ IF ret.k = "err"
       THEN Rethrow
       ELSE Call([Top EXCEPT !.pc = "maxDlSize",
                             !.a.partition = @ \o SlotSuffix(ret.v)],
                 Frame("_getDownloadSize", [x |-> 0]))
    /\ trace' = trace
    /\ FlashQuiet

\* after _getDownloadSize: the header is read and parsed, then is-logical is asked
FlashBlobDownloadSize ==
    /\ Resumed("flashBlob", "maxDlSize")
    /\ IF ret.k = "err"
       THEN Rethrow
       ELSE Call([Top EXCEPT !.pc = "isLogical",
                             !.a.maxDlSize = ret.v,
                             !.a.totalBytes = TotalBytes(Top.a.blob),
                             !.a.isSparse = IsSparse(Top.a.blob)],
                 Frame("getVariable", [varName |-> "is-logical:" \o Top.a.partition]))
    /\ trace' = trace
    /\ FlashQuiet

\* the head of the for-await loop over splitBlob in frame f: the next split is
\* uploaded, or the loop ends as the generator ends
FlashBlobNextSplit(f) ==
    IF f.a.gen # <<>>
    THEN /\ Call([f EXCEPT !.pc = "upload", !.a.split = Head(f.a.gen), !.a.gen = Tail(f.a.gen)],
                 Frame("upload", [partition |-> f.a.partition,
                                  buffer |-> WideOf(Head(f.a.gen).data.size), xid |-> 0]))
         /\ trace' = Append(trace, [t |-> "split", size |-> Head(f.a.gen).data.size,
                                    bytes |-> Head(f.a.gen).bytes])
    ELSE /\ IF f.a.genThrown.k = "err"
            THEN stk' = Rest /\ ret' = f.a.genThrown
            ELSE Return(Undefined)
         /\ trace' = trace

\* flashBlob from the conversion of a raw image that is too large to the
\* first turn of the loop
FlashBlobSplit(f) ==
    LET blob == IF JsGt(f.a.blob.size, f.a.maxDlSize) /\ ~f.a.isSparse
                THEN FromRaw(f.a.blob) ELSE f.a.blob
        gen  == SplitBlob(blob, f.a.maxDlSize)
    IN  FlashBlobNextSplit([f EXCEPT !.a.blob = blob, !.a.gen = gen.splits,
                                     !.a.genThrown = gen.thrown])

FlashBlobIsLogical ==
    /\ Resumed("flashBlob", "isLogical")
    /\ IF ret.k = "err"
       THEN Rethrow /\ trace' = trace
       ELSE IF ret.v = Text(Yes)
       THEN /\ Call([Top EXCEPT !.pc = "resizeZero"],
                    Frame("runCommand",
                          [command |-> "resize-logical-partition:" \o Top.a.partition \o ":0",
                           gv |-> 0]))
            /\ trace' = trace
       ELSE FlashBlobSplit(Top)
    /\ FlashQuiet

FlashBlobResizedZero ==
    /\ Resumed("flashBlob", "resizeZero")
    /\ IF ret.k = "err"
       THEN Rethrow
       ELSE Call([Top EXCEPT !.pc = "resize"],
                 Frame("runCommand",
                       [command |-> "resize-logical-partition:" \o Top.a.partition \o ":"
                                        \o ToString(Top.a.totalBytes),
                        gv |-> 0]))
    /\ trace' = trace
    /\ FlashQuiet

FlashBlobResized ==
    /\ Resumed("flashBlob", "resize")
    /\ IF ret.k = "err" THEN Rethrow /\ trace' = trace ELSE FlashBlobSplit(Top)
    /\ FlashQuiet

\* flashBlob going on to the next split without the flash command
FlashBlobUploadedOnly ==
    /\ Resumed("flashBlob", "upload")
    /\ IF ret.k = "err" THEN Rethrow /\ trace' = trace ELSE FlashBlobNextSplit(Top)
    /\ FlashQuiet

FlashBlobUploaded ==
    /\ Resumed("flashBlob", "upload")
    /\ IF ret.k = "err"
       THEN Rethrow
       ELSE Call([Top EXCEPT !.pc = "flash"],
                 Frame("runCommand", [command |-> "flash:" \o Top.a.partition, gv |-> 0]))
    /\ trace' = trace
    /\ FlashQuiet

\* flashBlob going on to the next split after a flash command that failed
FlashBlobFlashedAnyway ==
    /\ Resumed("flashBlob", "flash")
    /\ FlashBlobNextSplit([Top EXCEPT !.a.splits = @ + 1,
                                      !.a.sentBytes = @ + Top.a.split.bytes])
    /\ FlashQuiet

FlashBlobFlashed ==
    /\ Resumed("flashBlob", "flash")
    /\ IF ret.k = "err"
       THEN Rethrow /\ trace' = trace
       ELSE FlashBlobNextSplit([Top EXCEPT !.a.splits = @ + 1,
                                           !.a.sentBytes = @ + Top.a.split.bytes])
    /\ FlashQuiet

(***************************************************************************)
(* Inputs.                                                                 *)
(***************************************************************************)
RawBlob(size) ==
    [size |-> size,
     head |-> HeaderView(Min(size, FILE_HEADER_SIZE), <<1, 2, 3, 4>>, 0, 0, 0, 0, 0, 0, 0, 0),
     chunks |-> <<>>]

\* a sparse image of six 4096-byte blocks: Raw, Fill, Raw
SparseImage ==
    CreateImage(SparseHeader(4096, 6, 3, 0),
                <<SparseChunk(ChunkRaw, 2, 8192, 8192), SparseChunk(ChunkFill, 3, 4, 4),
                  SparseChunk(ChunkRaw, 1, 4096, 4096)>>)

\* a blob with the sparse magic and an unsupported major version
BadVersionBlob ==
    [size |-> 5000,
     head |-> HeaderView(FILE_HEADER_SIZE, FILE_MAGIC, 2, 0, FILE_HEADER_SIZE,
                         CHUNK_HEADER_SIZE, 4096, 1, 1, 0),
     chunks |-> <<>>]

Blobs == {RawBlob(16384), SparseImage, BadVersionBlob}

OpRunCommand(command) == [op |-> "runCommand", command |-> command]
OpGetVariable(varName) == [op |-> "getVariable", varName |-> varName]
OpUpload(partition, buffer) == [op |-> "upload", partition |-> partition, buffer |-> buffer]
OpReboot(target) == [op |-> "reboot", target |-> target, wait |-> FALSE]
OpFlashBlob(partition, blob) == [op |-> "flashBlob", partition |-> partition, blob |-> blob]

LongName == "has-slot:a-partition-name-that-does-not-fit-into-one-64-byte-packet"

\* buffer lengths of the uploads: 0, 1, 40, 2^16, 0x12345678, 2^32 - 1, 2^32
\* and 2^32 + 40
UploadLengths ==
    {WideOf(0), WideOf(1), WideOf(40), Wide(1, 0), Wide(4660, 22136),
     Wide(Limb - 1, Limb - 1), Wide(Limb, 0), Wide(Limb, 40)}

Ops ==
    {OpGetVariable("product"), OpGetVariable("variant"), OpGetVariable(LongName),
     OpRunCommand("erase:userdata"), OpReboot("bootloader"), OpReboot("")}
    \cup {OpUpload("boot", n) : n \in UploadLengths}

\* what the caller does in a run: one operation, one after a getVariable, a
\* flashBlob, or two of them with a change of slot in between
Programs ==
    {<<a>> : a \in Ops}
    \cup {<<OpGetVariable("product"), a>> : a \in Ops}
    \cup {<<OpUpload("boot", Wide(Limb, 0)), OpUpload("boot", Wide(Limb - 1, Limb - 1))>>}
FlashPrograms == {<<OpFlashBlob("system", b)>> : b \in Blobs}
\* two flashBlob calls on a bootloader that is told to change its slot in between
TwoFlashes ==
    <<OpFlashBlob("system", RawBlob(40)), OpRunCommand("set_active:b"),
      OpFlashBlob("system", RawBlob(40))>>

\* a bootloader with slots and logical partitions
PlainConfig == DevConfig(Known(Yes), Known(<<"a">>), Known(SmallDownloads), Known(Yes))

Device(cfg) == [need |-> 0, arbitrary |-> FALSE, cfg |-> cfg]
\* no bound on the number of timers that fire
Unbounded == 0 - 1
Budget(infos, faults) == [info |-> infos, faults |-> faults, timeouts |-> Unbounded]

Init ==
    /\ \/ /\ prog \in Programs
          /\ dev = Device(PlainConfig)
          /\ budget = Budget(MaxInfo, MaxFaults)
       \/ /\ prog \in FlashPrograms
          /\ \E cfg \in DevConfigs : dev = Device(cfg)
          /\ budget = Budget(MaxInfo, MaxFaults)
       \/ /\ prog = TwoFlashes
          /\ \E cfg \in DevConfigs : dev = Device(cfg)
          /\ budget = Budget(0, 0)
    /\ stk = <<>>
    /\ ret = None
    /\ wr = <<>>
    /\ rd = <<>>
    /\ inq = <<>>
    /\ timer = 0
    /\ timedOut = {}
    /\ nextId = 1
    /\ clock = 0
    /\ ticking = NotTicking
    /\ trace = <<>>
    /\ settles = <<>>
    /\ conn = Connected

Next ==
    \/ ClientCall
    \/ ClientSettle
    \/ RunCommand
    \/ ReadResponse
    \/ RunWithTimeoutDone
    \/ TimerFire
    \/ DevRecv
    \/ Deliver
    \/ TransferError
    \/ GetVariable
    \/ GetVariableDone
    \/ GetDownloadSize
    \/ GetDownloadSizeDone
    \/ SendRawPayload
    \/ SendRawPayloadSent
    \/ Upload
    \/ UploadDownloaded
    \/ UploadSent
    \/ UploadDone
    \/ Reboot
    \/ RebootDone
    \/ FlashBlob
    \/ FlashBlobHasSlot
    \/ FlashBlobCurrentSlot
    \/ FlashBlobDownloadSize
    \/ FlashBlobIsLogical
    \/ FlashBlobResizedZero
    \/ FlashBlobResized
    \/ FlashBlobUploaded
    \/ FlashBlobFlashed

Spec == Init /\ [][Next]_vars


(***************************************************************************)
(* runCommand against a bootloader that keeps no rule: any packets, with   *)
(* up to MaxLines INFO packets before the terminal one.                    *)
(***************************************************************************)
MaxLines == 2

InitCmd ==
    /\ prog \in {<<OpRunCommand("erase:userdata")>>,
                 <<OpRunCommand("erase:userdata"), OpRunCommand("erase:cache")>>}
    /\ dev = [need |-> 0, arbitrary |-> TRUE, cfg |-> PlainConfig]
    /\ budget = Budget(MaxLines, 0)
    /\ stk = <<>>
    /\ ret = None
    /\ wr = <<>>
    /\ rd = <<>>
    /\ inq = <<>>
    /\ timer = 0
    /\ timedOut = {}
    /\ nextId = 1
    /\ clock = 0
    /\ ticking = NotTicking
    /\ trace = <<>>
    /\ settles = <<>>
    /\ conn = Connected

NextCmd ==
    \/ ClientCall
    \/ ClientSettle
    \/ RunCommand
    \/ ReadResponse
    \/ DevRecv
    \/ Deliver

SpecCmd == InitCmd /\ [][NextCmd]_vars

(***************************************************************************)
(* getVariable alone, and followed by another call, with fairness: the     *)
(* client's own steps are taken (the event loop runs a task that is        *)
(* ready), and an armed timer fires.  Nothing is assumed of the bootloader *)
(* and the transport.                                                      *)
(***************************************************************************)
InitGetVar ==
    /\ prog \in {<<a>> : a \in {OpGetVariable("product"), OpGetVariable("variant"),
                                OpGetVariable(LongName)}}
                \cup {<<OpGetVariable("product"), a>> :
                        a \in {OpGetVariable("variant"), OpRunCommand("erase:userdata")}}
                \cup {<<OpGetVariable("product"), OpGetVariable("variant"),
                        OpGetVariable("product")>>}
    /\ dev = Device(PlainConfig)
    /\ budget = Budget(MaxInfo, MaxFaults)
    /\ stk = <<>>
    /\ ret = None
    /\ wr = <<>>
    /\ rd = <<>>
    /\ inq = <<>>
    /\ timer = 0
    /\ timedOut = {}
    /\ nextId = 1
    /\ clock = 0
    /\ ticking = NotTicking
    /\ trace = <<>>
    /\ settles = <<>>
    /\ conn = Connected

ClientStep ==
    \/ ClientCall
    \/ ClientSettle
    \/ RunCommand
    \/ ReadResponse
    \/ RunWithTimeoutDone
    \/ GetVariable
    \/ GetVariableDone

NextGetVar ==
    \/ ClientStep
    \/ TimerFire
    \/ DevRecv
    \/ Deliver
    \/ TransferError

FairSpec == InitGetVar /\ [][NextGetVar]_vars /\ WF_vars(ClientStep) /\ WF_vars(TimerFire)

(***************************************************************************)
(* The functions of sparse.ts called on their own: splitBlob iterated to   *)
(* its end, createImage followed by the parse of what it built, fromRaw,   *)
(* and parseFileHeader on 28-byte buffers.                                 *)
(***************************************************************************)
\* for await (split of splitBlob(blob, splitSize)): the generator is entered
SplitBlobStart ==
    /\ At("splitBlob", "start")
    /\ LET gen == SplitBlob(Top.a.blob, Top.a.splitSize)
       IN  stk' = <<[Top EXCEPT !.pc = "next", !.a.gen = gen.splits,
                                !.a.thrown = gen.thrown]>> \o Rest
    /\ UNCHANGED <<clock, ticking, conn, prog, ret, wr, rd, inq, dev, timer, timedOut, nextId, budget, trace, settles>>

\* the generator yields its next split
SplitBlobYield ==
    /\ At("splitBlob", "next")
    /\ Top.a.gen # <<>>
    /\ trace' = Append(trace, [t |-> "yield", split |-> Head(Top.a.gen)])
    /\ stk' = <<[Top EXCEPT !.a.gen = Tail(@)]>> \o Rest
    /\ UNCHANGED <<clock, ticking, conn, prog, ret, wr, rd, inq, dev, timer, timedOut, nextId, budget, settles>>

\* the generator returns, or throws what stopped it
SplitBlobDone ==
    /\ At("splitBlob", "next")
    /\ Top.a.gen = <<>>
    /\ IF Top.a.thrown.k = "err" THEN stk' = Rest /\ ret' = Top.a.thrown ELSE Return(Undefined)
    /\ UNCHANGED <<clock, ticking, conn, prog, wr, rd, inq, dev, timer, timedOut, nextId, budget, trace, settles>>

CreateImageCall ==
    /\ At("createImage", "start")
    /\ Return(CreateImage(Top.a.header, Top.a.chunks))
    /\ UNCHANGED <<clock, ticking, conn, prog, wr, rd, inq, dev, timer, timedOut, nextId, budget, trace, settles>>

FromRawCall ==
    /\ At("fromRaw", "start")
    /\ Return(FromRaw(Top.a.blob))
    /\ UNCHANGED <<clock, ticking, conn, prog, wr, rd, inq, dev, timer, timedOut, nextId, budget, trace, settles>>

\* what parseFileHeader returns: a header, or null
Parsed(hdr) == [null |-> FALSE, hdr |-> hdr]
NotSparse == [null |-> TRUE, hdr |-> SparseHeader(0, 0, 0, 0)]

ParseFileHeaderCall ==
    /\ At("parseFileHeader", "start")
    /\ LET parsed == ParseFileHeader(Top.a.view)
       IN  IF parsed.k = "throw" THEN Throw(parsed.err)
           ELSE IF parsed.k = "null" THEN Return(NotSparse)
           ELSE Return(Parsed(parsed.hdr))
    /\ UNCHANGED <<clock, ticking, conn, prog, wr, rd, inq, dev, timer, timedOut, nextId, budget, trace, settles>>

\* the chunk headers of an image parsed in order, each with its data
ParseChunkHeaderCall ==
    /\ At("parseChunkHeader", "start")
    /\ Return([i \in 1..Len(Top.a.views) |-> ReadChunk(Top.a.views[i])])
    /\ UNCHANGED <<clock, ticking, conn, prog, wr, rd, inq, dev, timer, timedOut, nextId, budget, trace, settles>>

OpSplitBlob(blob, splitSize) == [op |-> "splitBlob", blob |-> blob, splitSize |-> splitSize]
OpCreateImage(header, chunks) == [op |-> "createImage", header |-> header, chunks |-> chunks]
OpParseFileHeader(view) == [op |-> "parseFileHeader", view |-> view]
OpFromRaw(blob) == [op |-> "fromRaw", blob |-> blob]
OpParseBuilt == [op |-> "parseBuilt"]
OpParseBuiltChunks == [op |-> "parseBuiltChunks"]

\* chunks of 4096-byte blocks: Raw of one and of two blocks, Fill of three,
\* Skip of two, and the CRC chunk, which stands for no block
Chunks ==
    {SparseChunk(ChunkRaw, 1, 4096, 4096), SparseChunk(ChunkRaw, 2, 8192, 8192),
     SparseChunk(ChunkFill, 3, 4, 4), SparseChunk(ChunkSkip, 2, 0, 0),
     SparseChunk(ChunkCrc32, 0, 4, 4)}
MaxChunks == 3
ChunkLists == UNION {[1..n -> Chunks] : n \in 1..MaxChunks}

\* the sparse image of the chunks cs: its header counts them and their blocks
ImageOf(cs) == CreateImage(SparseHeader(4096, CalcChunksBlockSize(cs), Len(cs), 0), cs)
\* the same image with a checksum in its header
WithCrc(image) == [image EXCEPT !.head.crc32 = 77]

\* a chunk whose type code is none of ChunkType: one block with its data
UnknownChunkType == ChunkCrc32 + 1
UnknownChunk == SparseChunk(UnknownChunkType, 1, 4096, 4096)
UnknownTypeImages ==
    {ImageOf(<<UnknownChunk>>),
     ImageOf(<<SparseChunk(ChunkRaw, 1, 4096, 4096), UnknownChunk>>),
     ImageOf(<<UnknownChunk, SparseChunk(ChunkRaw, 1, 4096, 4096)>>)}

SplitInputs ==
    {ImageOf(cs) : cs \in ChunkLists}
    \cup {WithCrc(ImageOf(cs)) : cs \in [1..2 -> Chunks]}
    \cup UnknownTypeImages
    \cup {RawBlob(16384), RawBlob(40)}

\* split sizes: none, less than a header, a header and a little more (30),
\* one block with its headers (4136), a little more, two blocks with their
\* headers (8244), three, more than any image, and NaN
SplitSizes ==
    {J(0), J(20), J(FILE_HEADER_SIZE + 2), J(4136), J(4200), J(8244), J(12400), J(100000), JNaN}

HeaderViews ==
    {HeaderView(FILE_HEADER_SIZE, magic, major, minor, fileHdrSize, chunkHdrSize,
                blockSize, 3, 1, crc32) :
        magic \in {FILE_MAGIC, <<237, 38, 255, 58>>, <<58, 255, 38, 0>>, <<1, 2, 3, 4>>},
        major \in {0, 1, 2}, minor \in {0, 1},
        fileHdrSize \in {FILE_HEADER_SIZE, 32}, chunkHdrSize \in {CHUNK_HEADER_SIZE, 16},
        blockSize \in {4096, 4098, 0}, crc32 \in {0, 9}}

BuildInputs ==
    {<<SparseHeader(blockSize, blocks, Len(cs), crc32), cs>> :
        blockSize \in {4, 6, 4096}, blocks \in {0, 6}, crc32 \in {0, 77},
        cs \in UNION {[1..n -> Chunks] : n \in 0..2}}

\* sizes of raw blobs: none, less than a block, whole blocks and not, one
\* chunk of RAW_CHUNK_SIZE, one more byte or block than that, up to
\* MaxRawChunks chunks and a little more
MaxRawChunks == 2
RawSizes ==
    {0, 1, 40, 4096, 5000, 8192, RAW_CHUNK_SIZE - 1}
    \cup {k * RAW_CHUNK_SIZE + d : k \in 1..MaxRawChunks, d \in {0, 1, 4096, 5000}}

SparsePrograms ==
    {<<OpSplitBlob(b, n)>> : b \in SplitInputs, n \in SplitSizes}
    \cup {<<OpFromRaw(RawBlob(n))>> : n \in RawSizes}
    \cup {<<OpCreateImage(in[1], in[2]), OpParseBuilt, OpParseBuiltChunks>> : in \in BuildInputs}
    \cup {<<OpParseFileHeader(v)>> : v \in HeaderViews}

InitSparse ==
    /\ prog \in SparsePrograms
    /\ dev = Device(PlainConfig)
    /\ budget = Budget(0, 0)
    /\ stk = <<>>
    /\ ret = None
    /\ wr = <<>>
    /\ rd = <<>>
    /\ inq = <<>>
    /\ timer = 0
    /\ timedOut = {}
    /\ nextId = 1
    /\ clock = 0
    /\ ticking = NotTicking
    /\ trace = <<>>
    /\ settles = <<>>
    /\ conn = Connected

NextSparse ==
    \/ ClientCall
    \/ ClientSettle
    \/ SplitBlobStart
    \/ SplitBlobYield
    \/ SplitBlobDone
    \/ CreateImageCall
    \/ FromRawCall
    \/ ParseFileHeaderCall
    \/ ParseChunkHeaderCall

SpecSparse == InitSparse /\ [][NextSparse]_vars

(***************************************************************************)
(* connect and waitForConnect on a bus where devices come and go: up to    *)
(* MaxConnects connect events, on a user agent that is Android or not.     *)
(***************************************************************************)
MaxConnects == 2

OpConnect == [op |-> "connect"]
OpWaitForConnect == [op |-> "waitForConnect"]

ConnectPrograms ==
    {<<OpConnect>>, <<OpConnect, OpWaitForConnect>>,
     <<OpConnect, OpWaitForConnect, OpWaitForConnect>>, <<OpWaitForConnect, OpConnect>>}

InitConnect ==
    /\ prog \in ConnectPrograms
    /\ \E plugged \in UsbDevices \cup {NoDevice}, android \in BOOLEAN :
            conn = Constructed(plugged, android, MaxConnects)
    /\ dev = Device(PlainConfig)
    /\ budget = Budget(0, MaxFaults)
    /\ stk = <<>>
    /\ ret = None
    /\ wr = <<>>
    /\ rd = <<>>
    /\ inq = <<>>
    /\ timer = 0
    /\ timedOut = {}
    /\ nextId = 1
    /\ clock = 0
    /\ ticking = NotTicking
    /\ trace = <<>>
    /\ settles = <<>>

NextConnect ==
    \/ ClientCall
    \/ ClientSettle
    \/ Connect
    \/ WaitForConnect
    \/ Disconnect
    \/ ConnectEvent
    \/ UsbOpDone
    \/ UsbOpFailed

SpecConnect == InitConnect /\ [][NextConnect]_vars

(***************************************************************************)
(* flashZip (index.ts): the factory image, its entries and the             *)
(* requirements of android-info.txt.  A file name and a line of text are   *)
(* sequences of characters.                                                *)
(***************************************************************************)
BOOTLOADER_REBOOT_TIME == 4000
FASTBOOTD_REBOOT_TIME == 16000
USERDATA_ERASE_TIME == 1000

BOOT_CRITICAL_IMAGES ==
    <<<<"b", "o", "o", "t">>,
      <<"d", "t">>,
      <<"d", "t", "b", "o">>,
      <<"i", "n", "i", "t", "_", "b", "o", "o", "t">>,
      <<"p", "v", "m", "f", "w">>,
      <<"r", "e", "c", "o", "v", "e", "r", "y">>,
      <<"v", "b", "m", "e", "t", "a", "_", "s", "y", "s", "t", "e", "m">>,
      <<"v", "b", "m", "e", "t", "a", "_", "v", "e", "n", "d", "o", "r">>,
      <<"v", "b", "m", "e", "t", "a">>,
      <<"v", "e", "n", "d", "o", "r", "_", "b", "o", "o", "t">>,
      <<"v", "e", "n", "d", "o", "r", "_", "k", "e", "r", "n", "e", "l", "_", "b", "o", "o", "t">>>>

SYSTEM_IMAGES ==
    <<<<"o", "d", "m">>,
      <<"o", "d", "m", "_", "d", "l", "k", "m">>,
      <<"p", "r", "o", "d", "u", "c", "t">>,
      <<"s", "y", "s", "t", "e", "m", "_", "e", "x", "t">>,
      <<"s", "y", "s", "t", "e", "m">>,
      <<"v", "e", "n", "d", "o", "r", "_", "d", "l", "k", "m">>,
      <<"v", "e", "n", "d", "o", "r">>>>

Bootloader == <<"b", "o", "o", "t", "l", "o", "a", "d", "e", "r">>
Radio == <<"r", "a", "d", "i", "o">>
AvbCustomKey == <<"a", "v", "b", "_", "c", "u", "s", "t", "o", "m", "_", "k", "e", "y">>
DotImg == <<".", "i", "m", "g">>
DotZip == <<".", "z", "i", "p">>
AvbPkmdBin == <<"a", "v", "b", "_", "p", "k", "m", "d", ".", "b", "i", "n">>
AndroidInfoTxt == <<"a", "n", "d", "r", "o", "i", "d", "-", "i", "n", "f", "o", ".", "t", "x", "t">>
SuperEmptyImg == <<"s", "u", "p", "e", "r", "_", "e", "m", "p", "t", "y">> \o DotImg

\* Array.prototype.includes
Includes(array, x) == \E i \in 1..Len(array) : array[i] = x

StartsWith(cs, prefix) == Len(cs) >= Len(prefix) /\ SubSeq(cs, 1, Len(prefix)) = prefix
EndsWith(cs, suffix) ==
    Len(cs) >= Len(suffix) /\ SubSeq(cs, Len(cs) - Len(suffix) + 1, Len(cs)) = suffix

\* the characters a dot of a regular expression does not match
LineTerminators == {"\n", "\r"}
Dots(cs) == \A i \in 1..Len(cs) : cs[i] \notin LineTerminators

\* filename.match(new RegExp(`${imageName}(?:-.+)?\\.img$`)): the pattern is
\* searched for at every place of the file name
MatchesImage(filename, imageName) ==
    \E p \in 1..Len(filename) :
        LET rest == SubSeq(filename, p, Len(filename))
            after == SubSeq(rest, Len(imageName) + 1, Len(rest))
        IN  /\ StartsWith(rest, imageName)
            /\ \/ after = DotImg
               \/ /\ Len(after) >= 6
                  /\ after[1] = "-"
                  /\ EndsWith(after, DotImg)
                  /\ Dots(SubSeq(after, 2, Len(after) - 4))

\* filename.match(/image-.+\.zip$/)
MatchesImageZip(filename) ==
    \E p \in 1..Len(filename) :
        LET rest == SubSeq(filename, p, Len(filename))
        IN  /\ StartsWith(rest, <<"i", "m", "a", "g", "e", "-">>)
            /\ Len(rest) >= 11
            /\ EndsWith(rest, DotZip)
            /\ Dots(SubSeq(rest, 7, Len(rest) - 4))

\* Array.prototype.find: the place of the first entry that passes, 0 if none
Find(entries, Test(_)) ==
    IF \E i \in 1..Len(entries) : Test(entries[i])
    THEN CHOOSE i \in 1..Len(entries) :
            Test(entries[i]) /\ \A j \in 1..(i - 1) : ~Test(entries[j])
    ELSE 0

Entry(filename, blob) == [filename |-> filename, blob |-> blob]

\* String.prototype.replace("\r", ""): the first carriage return is taken out
ReplaceFirstCR(cs) ==
    IF \E i \in 1..Len(cs) : cs[i] = "\r"
    THEN LET i == CHOOSE k \in 1..Len(cs) : cs[k] = "\r" /\ \A j \in 1..(k - 1) : cs[j] # "\r"
         IN  SubSeq(cs, 1, i - 1) \o SubSeq(cs, i + 1, Len(cs))
    ELSE cs

RECURSIVE SplitOn(_, _)
\* String.prototype.split(sep) for a separator of one character
SplitOn(cs, sep) ==
    IF \E i \in 1..Len(cs) : cs[i] = sep
    THEN LET i == CHOOSE k \in 1..Len(cs) : cs[k] = sep /\ \A j \in 1..(k - 1) : cs[j] # sep
         IN  <<SubSeq(cs, 1, i - 1)>> \o SplitOn(SubSeq(cs, i + 1, Len(cs)), sep)
    ELSE <<cs>>

Require == <<"r", "e", "q", "u", "i", "r", "e">>
NoMatch == [matched |-> FALSE, variable |-> <<>>, expectValue |-> <<>>]

\* the variable ends before place q of the line, which holds the equals sign
\* that group 1 of the pattern stops at when it starts at place v
Groups(line, v, q) ==
    /\ v < q /\ q < Len(line) /\ line[q] = "="
    /\ Dots(SubSeq(line, v, q - 1))
    /\ Dots(SubSeq(line, q + 1, Len(line)))

\* line.match(/^require\s+(.+?)=(.+)$/): the white space is as long as it can
\* be, the variable as short as it can be
MatchRequire(line) ==
    LET starts == {v \in 9..Len(line) :
                        /\ \A i \in 8..(v - 1) : line[i] \in WhiteSpace
                        /\ \E q \in 1..Len(line) : Groups(line, v, q)}
    IN  IF StartsWith(line, Require) /\ starts # {}
        THEN LET v == CHOOSE x \in starts : \A y \in starts : y <= x
                 q == CHOOSE x \in 1..Len(line) :
                        Groups(line, v, x) /\ \A y \in 1..(x - 1) : ~Groups(line, v, y)
             IN  [matched |-> TRUE, variable |-> SubSeq(line, v, q - 1),
                  expectValue |-> SubSeq(line, q + 1, Len(line))]
        ELSE NoMatch

Board == <<"b", "o", "a", "r", "d">>
Product == <<"p", "r", "o", "d", "u", "c", "t">>
PartitionExists == <<"p", "a", "r", "t", "i", "t", "i", "o", "n", "-", "e", "x", "i", "s", "t", "s">>

VariableNoAlias(match) == match.variable
\* the variable a requirement is checked against
Variable(match) == IF match.variable = Board THEN Product ELSE match.variable

\* `${x}` of a string or null
Interpolated(x) == IF x.null THEN <<"null">> ELSE x.s

RequirementFailed(variable, expectValue, why) ==
    FastbootError(FAIL, <<"Requirement ">> \o variable \o <<"=">> \o expectValue
                            \o <<" failed, ">> \o why)

TypeError == Err("TypeError", <<>>, <<>>)

\* the factory callback onProgress(action, item, progress), progress = num/den
FactoryProgress(action, item, num, den) ==
    [t |-> "onProgress", action |-> action, item |-> item, num |-> num, den |-> den]

\* the place of the first entry whose file name passes, 0 if there is none
FindImage(entries, imageName) ==
    LET Test(e) == MatchesImage(e.filename, imageName) IN Find(entries, Test)
FindImageZip(entries) ==
    LET Test(e) == MatchesImageZip(e.filename) IN Find(entries, Test)
FindNamed(entries, filename) ==
    LET Test(e) == e.filename = filename IN Find(entries, Test)
FindAvbKey(entries) ==
    LET Test(e) == EndsWith(e.filename, AvbPkmdBin) IN Find(entries, Test)

\* the entries of the nested archive image-*.zip
ImageEntries(entries) == entries[FindImageZip(entries)].blob.entries

TryFlashImagesFrame(entries, imageNames) ==
    Frame("tryFlashImages", [entries |-> entries, imageNames |-> imageNames, i |-> 0])
FlashEntryBlobFrame(entry, partition) ==
    Frame("flashEntryBlob", [entry |-> entry, partition |-> partition])
TryRebootFrame(target) == Frame("tryReboot", [target |-> target])
RebootFrame(target, wait) == Frame("reboot", [target |-> target, wait |-> wait])
RunCommandFrame(command) == Frame("runCommand", [command |-> command, gv |-> 0])
GetVariableFrame(varName) == Frame("getVariable", [varName |-> varName])

\* flashZip awaits callee and will go on at pc
Await(pc, callee) == Call([Top EXCEPT !.pc = pc], callee)
\* flashZip awaits runWithTimedProgress(onProgress, action, item, duration,
\* work): the call of work is an argument and is made first
AwaitTimed(pc, action, item, duration, work) ==
    /\ stk' = <<work,
                [fn |-> "runWithTimedProgress", pc |-> "called",
                 a |-> [action |-> action, item |-> item, duration |-> duration]],
                [Top EXCEPT !.pc = pc]>> \o Rest
    /\ ret' = None

(***************************************************************************)
(* The stages of flashZip, each from the place where the code reaches it   *)
(* to its first await.                                                     *)
(***************************************************************************)
WipeUserdata ==
    IF Top.a.wipe
    THEN /\ AwaitTimed("wipe", "wipe", "data", USERDATA_ERASE_TIME,
                       RunCommandFrame("erase:userdata"))
         /\ trace' = trace
    ELSE Return(Undefined) /\ trace' = trace

CustomAvbKey ==
    IF FindAvbKey(Top.a.entries) # 0
    THEN Await("eraseKey", RunCommandFrame("erase:avb_custom_key")) /\ trace' = trace
    ELSE WipeUserdata

ReturnToBootloader ==
    /\ Await("isUserspaceAgain", GetVariableFrame("is-userspace"))
    /\ trace' = trace

SystemImages ==
    /\ Await("system", TryFlashImagesFrame(ImageEntries(Top.a.entries), SYSTEM_IMAGES))
    /\ trace' = trace

SuperPartition ==
    IF FindNamed(ImageEntries(Top.a.entries), SuperEmptyImg) # 0
    THEN /\ AwaitTimed("fastbootd", "reboot", "device", FASTBOOTD_REBOOT_TIME,
                       RebootFrame("fastboot", TRUE))
         /\ trace' = trace
    ELSE SystemImages

BootCriticalImages ==
    /\ Await("bootCritical",
             TryFlashImagesFrame(ImageEntries(Top.a.entries), BOOT_CRITICAL_IMAGES))
    /\ trace' = trace

\* the nested archive is unpacked and its requirements are checked
UnpackImages ==
    IF FindImageZip(Top.a.entries) = 0
    THEN /\ Throw(TypeError)
         /\ trace' = Append(trace, FactoryProgress("unpack", "images", 0, 1))
    ELSE LET imageEntries == ImageEntries(Top.a.entries)
             info == FindNamed(imageEntries, AndroidInfoTxt)
         IN  IF info # 0
             THEN /\ Await("requirements",
                           Frame("checkRequirements",
                                 [androidInfo |-> imageEntries[info].blob, lines |-> <<>>,
                                  i |-> 0]))
                  /\ trace' = Append(trace, FactoryProgress("unpack", "images", 0, 1))
             ELSE /\ Await("bootCritical",
                           TryFlashImagesFrame(imageEntries, BOOT_CRITICAL_IMAGES))
                  /\ trace' = Append(trace, FactoryProgress("unpack", "images", 0, 1))

SnapshotCancel ==
    /\ Await("snapshot", GetVariableFrame("snapshot-update-status"))
    /\ trace' = trace

RebootToBootloader(pc) ==
    /\ AwaitTimed(pc, "reboot", "device", BOOTLOADER_REBOOT_TIME, TryRebootFrame("bootloader"))
    /\ trace' = trace

BootloaderPack ==
    /\ Await("bootloader", TryFlashImagesFrame(Top.a.entries, <<Bootloader>>))
    /\ trace' = trace

RadioPack ==
    /\ Await("radio", TryFlashImagesFrame(Top.a.entries, <<Radio>>))
    /\ trace' = trace

ZipQuiet == UNCHANGED <<clock, ticking, conn, prog, wr, rd, inq, dev, timer, timedOut, nextId, budget, settles>>

\* flashZip is resumed at pc by a call that has not failed; one that has
\* failed ends flashZip with its error
Passed(pc) == Resumed("flashZip", pc) /\ ret.k = "ok"

FlashZipFailed ==
    /\ stk # <<>> /\ Top.fn = "flashZip" /\ ret.k = "err"
    /\ Rethrow
    /\ trace' = trace
    /\ ZipQuiet

FlashZip ==
    /\ At("flashZip", "start")
    /\ Await("isUserspace", GetVariableFrame("is-userspace"))
    /\ trace' = Append(trace, FactoryProgress("load", "package", 0, 1))
    /\ ZipQuiet

Nullish(x) == x.null \/ x.s = <<>>

FlashZipIsUserspace ==
    /\ Passed("isUserspace")
    /\ IF ret.v = Text(Yes)
       THEN Await("toBootloader", RebootFrame("bootloader", TRUE)) /\ trace' = trace
       ELSE BootloaderPack
    /\ ZipQuiet

FlashZipInBootloader ==
    /\ Passed("toBootloader")
    /\ BootloaderPack
    /\ ZipQuiet

FlashZipBootloader ==
    /\ Passed("bootloader")
    /\ RebootToBootloader("bootloaderReboot")
    /\ ZipQuiet

FlashZipBootloaderRebooted ==
    /\ Passed("bootloaderReboot")
    /\ RadioPack
    /\ ZipQuiet

FlashZipRadio ==
    /\ Passed("radio")
    /\ RebootToBootloader("radioReboot")
    /\ ZipQuiet

FlashZipRadioRebooted ==
    /\ Passed("radioReboot")
    /\ SnapshotCancel
    /\ ZipQuiet

FlashZipSnapshot ==
    /\ Passed("snapshot")
    /\ IF ~ret.v.null /\ ret.v # Text(<<"n", "o", "n", "e">>)
       THEN Await("cancel", RunCommandFrame("snapshot-update:cancel")) /\ trace' = trace
       ELSE UnpackImages
    /\ ZipQuiet

FlashZipCancelled ==
    /\ Passed("cancel")
    /\ UnpackImages
    /\ ZipQuiet

FlashZipRequirements ==
    /\ Passed("requirements")
    /\ BootCriticalImages
    /\ ZipQuiet

FlashZipBootCritical ==
    /\ Passed("bootCritical")
    /\ SuperPartition
    /\ ZipQuiet

FlashZipFastbootd ==
    /\ Passed("fastbootd")
    /\ Await("superName", GetVariableFrame("super-partition-name"))
    /\ trace' = trace
    /\ ZipQuiet

Super == <<"s", "u", "p", "e", "r">>

\* the super partition's name is known: the template is read and uploaded
FlashZipSuperName ==
    /\ Passed("superName")
    /\ LET superName == IF Nullish(ret.v) THEN Super ELSE ret.v.s
           imageEntries == ImageEntries(Top.a.entries)
           entry == imageEntries[FindNamed(imageEntries, SuperEmptyImg)]
       IN  /\ Call([Top EXCEPT !.pc = "superUpload", !.a.superName = superName],
                   Frame("upload", [partition |-> StrOf(superName),
                                    buffer |-> WideOf(entry.blob.size), xid |-> 0]))
           /\ trace' = Append(trace, FactoryProgress(IF Top.a.wipe THEN "wipe" ELSE "flash",
                                                     "super", 0, 1))
    /\ ZipQuiet

\* update-super without the :wipe suffix
FlashZipSuperUploadedNoWipe ==
    /\ Passed("superUpload")
    /\ Await("updateSuper", RunCommandFrame("update-super:" \o StrOf(Top.a.superName)))
    /\ trace' = trace
    /\ ZipQuiet

FlashZipSuperUploaded ==
    /\ Passed("superUpload")
    /\ Await("updateSuper",
             RunCommandFrame("update-super:" \o StrOf(Top.a.superName)
                                \o (IF Top.a.wipe THEN ":wipe" ELSE "")))
    /\ trace' = trace
    /\ ZipQuiet

FlashZipSuperUpdated ==
    /\ Passed("updateSuper")
    /\ SystemImages
    /\ ZipQuiet

FlashZipSystem ==
    /\ Passed("system")
    /\ ReturnToBootloader
    /\ ZipQuiet

FlashZipIsUserspaceAgain ==
    /\ Passed("isUserspaceAgain")
    /\ IF ret.v = Text(Yes)
       THEN /\ AwaitTimed("toBootloaderAgain", "reboot", "device", BOOTLOADER_REBOOT_TIME,
                          RebootFrame("bootloader", TRUE))
            /\ trace' = trace
       ELSE CustomAvbKey
    /\ ZipQuiet

FlashZipInBootloaderAgain ==
    /\ Passed("toBootloaderAgain")
    /\ CustomAvbKey
    /\ ZipQuiet

FlashZipKeyErased ==
    /\ Passed("eraseKey")
    /\ Await("customKey",
             FlashEntryBlobFrame(Top.a.entries[FindAvbKey(Top.a.entries)], AvbCustomKey))
    /\ trace' = trace
    /\ ZipQuiet

FlashZipCustomKey ==
    /\ Passed("customKey")
    /\ WipeUserdata
    /\ ZipQuiet

FlashZipWiped ==
    /\ Passed("wipe")
    /\ Return(Undefined)
    /\ trace' = trace
    /\ ZipQuiet

(***************************************************************************)
(* tryFlashImages, flashEntryBlob, tryReboot, checkRequirements and        *)
(* runWithTimedProgress.                                                   *)
(***************************************************************************)
\* the names of imageNames after place i that have an entry
Flashable(f) ==
    {k \in (f.a.i + 1)..Len(f.a.imageNames) : FindImage(f.a.entries, f.a.imageNames[k]) # 0}

\* the loop of tryFlashImages up to the next flashEntryBlob
TryFlashImages ==
    /\ At("tryFlashImages", "start") \/ Resumed("tryFlashImages", "flash")
    /\ IF ret.k = "err"
       THEN Rethrow
       ELSE IF Flashable(Top) = {}
       THEN Return(Undefined)
       ELSE LET k == CHOOSE x \in Flashable(Top) : \A y \in Flashable(Top) : x <= y
                imageName == Top.a.imageNames[k]
            IN  Call([Top EXCEPT !.pc = "flash", !.a.i = k],
                     FlashEntryBlobFrame(Top.a.entries[FindImage(Top.a.entries, imageName)],
                                         imageName))
    /\ trace' = trace
    /\ ZipQuiet

\* flashEntryBlob up to flashBlob: the entry's data is read
FlashEntryBlob ==
    /\ At("flashEntryBlob", "start")
    /\ Call([Top EXCEPT !.pc = "flash"],
            Frame("flashBlob", FlashLocals(StrOf(Top.a.partition), Top.a.entry.blob)))
    /\ trace' = trace \o <<FactoryProgress("unpack", Top.a.partition, 0, 1),
                            FactoryProgress("flash", Top.a.partition, 0, 1)>>
    /\ ZipQuiet

FlashEntryBlobDone ==
    /\ Resumed("flashEntryBlob", "flash")
    /\ IF ret.k = "err" THEN Rethrow ELSE Return(Undefined)
    /\ trace' = trace
    /\ ZipQuiet

TryReboot ==
    /\ At("tryReboot", "start")
    /\ Call([Top EXCEPT !.pc = "reboot"], RebootFrame(Top.a.target, FALSE))
    /\ trace' = trace
    /\ ZipQuiet

\* tryReboot that does not wait for the device to come back
TryRebootNoWait ==
    /\ Resumed("tryReboot", "reboot")
    /\ Return(Undefined)
    /\ trace' = trace
    /\ ZipQuiet

\* the reboot has settled: an error of it is dropped, and the device is
\* waited for
TryRebootRebooted ==
    /\ Resumed("tryReboot", "reboot")
    /\ Call([Top EXCEPT !.pc = "connect"], Frame("waitForConnect", [w |-> 0]))
    /\ trace' = trace
    /\ ZipQuiet

TryRebootConnected ==
    /\ Resumed("tryReboot", "connect")
    /\ IF ret.k = "err" THEN Rethrow ELSE Return(Undefined)
    /\ trace' = trace
    /\ ZipQuiet

\* reboot(target, true) after its waitForConnect
RebootWaited ==
    /\ Resumed("reboot", "wait")
    /\ IF ret.k = "err" THEN Rethrow ELSE Return(Undefined)
    /\ trace' = trace
    /\ ZipQuiet

\* the lines of f after place i that are requirements
RequireLines(f) == {k \in (f.a.i + 1)..Len(f.a.lines) : MatchRequire(f.a.lines[k]).matched}

\* the loop of checkRequirements from line i up to the next getVariable
NextRequirement(f) ==
    IF RequireLines(f) = {}
    THEN Return(Undefined)
    ELSE LET k == CHOOSE x \in RequireLines(f) : \A y \in RequireLines(f) : x <= y
             match == MatchRequire(f.a.lines[k])
         IN  Call([f EXCEPT !.pc = "getVariable", !.a.i = k],
                  GetVariableFrame(IF Variable(match) = PartitionExists
                                   THEN "has-slot:" \o StrOf(match.expectValue)
                                   ELSE StrOf(Variable(match))))

CheckRequirements ==
    /\ At("checkRequirements", "start")
    /\ NextRequirement([Top EXCEPT !.a.lines = SplitOn(ReplaceFirstCR(Top.a.androidInfo), "\n")])
    /\ trace' = trace
    /\ ZipQuiet

RecognizedAny(expectValue) == TRUE
\* the partition named by a partition-exists requirement is one flashZip knows
Recognized(expectValue) ==
    Includes(BOOT_CRITICAL_IMAGES, expectValue) \/ Includes(SYSTEM_IMAGES, expectValue)

\* what checkRequirements makes of the value the device has for the
\* requirement match: Ok if it passes, else the error thrown
CheckRequirement(match, value) ==
    IF Variable(match) = PartitionExists
    THEN IF value # Text(Yes) /\ value # Text(No)
         THEN Thrown(RequirementFailed(Variable(match), match.expectValue,
                                       <<"device lacks partition">>))
         ELSE IF ~Recognized(match.expectValue)
         THEN Thrown(RequirementFailed(Variable(match), match.expectValue,
                                       <<"unrecognized partition">>))
         ELSE Ok(Undefined)
    ELSE IF ~value.null /\ Includes(SplitOn(match.expectValue, "|"), value.s)
         THEN Ok(Undefined)
         ELSE Thrown(RequirementFailed(Variable(match), match.expectValue,
                                       <<"value = ">> \o Interpolated(value)))

\* one turn of the loop of checkRequirements has ended for the requirement
\* match, with the value the device gave and what came of the check
RequirementChecked(match, value, checked) ==
    [t |-> "requirement", match |-> match, value |-> value, r |-> checked]

CheckRequirementsChecked ==
    /\ Resumed("checkRequirements", "getVariable")
    /\ IF ret.k = "err"
       THEN Rethrow /\ trace' = trace
       ELSE LET match == MatchRequire(Top.a.lines[Top.a.i])
                checked == CheckRequirement(match, ret.v)
            IN  /\ IF checked.k = "err" THEN Throw(checked.v) ELSE NextRequirement(Top)
                /\ trace' = Append(trace, RequirementChecked(match, ret.v, checked))
    /\ ZipQuiet

\* runWithTimedProgress up to its race: the work, called as the argument, has
\* run up to its first await (or has settled already), and the first progress
\* is reported
RunWithTimedProgress ==
    /\ \E i \in 1..Len(stk) :
            /\ TimedCalled(i)
            /\ IF i = 1 THEN ret.k # "none" ELSE ret.k = "none" /\ Top.pc # "start"
            /\ stk' = [stk EXCEPT ![i].pc = "race"]
            /\ trace' = Append(trace, FactoryProgress(stk[i].a.action, stk[i].a.item, 0, 1))
    /\ UNCHANGED <<clock, ticking, conn, prog, ret, wr, rd, inq, dev, timer, timedOut, nextId, budget, settles>>

\* the work has settled: its error is thrown on, or the last progress is
\* reported
RunWithTimedProgressDone ==
    /\ Resumed("runWithTimedProgress", "race")
    /\ IF ret.k = "err"
       THEN Rethrow /\ trace' = trace
       ELSE /\ Return(Undefined)
            /\ trace' = Append(trace, FactoryProgress(Top.a.action, Top.a.item, 1, 1))
    /\ ZipQuiet

(***************************************************************************)
(* flashZip on factory images: a whole one on a device that does as it is  *)
(* told, and small ones, with requirements that hold or fail, on a device  *)
(* and a transport where up to MaxFaults things go wrong.  The device      *)
(* restarts when it is told to, at most MaxReboots times.                  *)
(***************************************************************************)
MaxReboots == 5
\* getVariable calls that time out in one run
MaxTimeouts == 1

OpFlashZip(entries, wipe) == [op |-> "flashZip", entries |-> entries, wipe |-> wipe]

\* android-info.txt: a requirement the device meets (its product is p)
InfoMet ==
    <<"r", "e", "q", "u", "i", "r", "e", " ", "b", "o", "a", "r", "d", "=", "p", "|", "q", "\n">>

\* android-info.txt: a requirement the device does not meet
InfoUnmet ==
    <<"r", "e", "q", "u", "i", "r", "e", " ", "b", "o", "a", "r", "d", "=", "x", "\n">>

\* android-info.txt: two requirements, the second not met
InfoUnmetSecond ==
    <<"r", "e", "q", "u", "i", "r", "e", " ", "v", "e", "r", "s", "i", "o", "n", "-", "b", "o", "o", "t", "l", "o", "a", "d", "e", "r", "=", "b", "1", "\n", "r", "e", "q", "u", "i", "r", "e", " ", "b", "o", "a", "r", "d", "=", "x", "\n">>

\* android-info.txt: the same with CRLF line ends
InfoUnmetSecondCRLF ==
    <<"r", "e", "q", "u", "i", "r", "e", " ", "v", "e", "r", "s", "i", "o", "n", "-", "b", "o", "o", "t", "l", "o", "a", "d", "e", "r", "=", "b", "1", "\r", "\n", "r", "e", "q", "u", "i", "r", "e", " ", "b", "o", "a", "r", "d", "=", "x", "\r", "\n">>

\* android-info.txt: a variable the device does not have, after one it has
InfoUndefined ==
    <<"r", "e", "q", "u", "i", "r", "e", " ", "b", "o", "a", "r", "d", "=", "q", "|", "p", "\n", "r", "e", "q", "u", "i", "r", "e", " ", "s", "u", "p", "e", "r", "-", "p", "a", "r", "t", "i", "t", "i", "o", "n", "-", "n", "a", "m", "e", "=", "s", "p", "\n">>

\* android-info.txt: a partition with slots
InfoSlotPartition ==
    <<"r", "e", "q", "u", "i", "r", "e", " ", "p", "a", "r", "t", "i", "t", "i", "o", "n", "-", "e", "x", "i", "s", "t", "s", "=", "v", "b", "m", "e", "t", "a", "\n">>

\* android-info.txt: a partition for which has-slot is neither yes nor no
InfoOddSlot ==
    <<"r", "e", "q", "u", "i", "r", "e", " ", "p", "a", "r", "t", "i", "t", "i", "o", "n", "-", "e", "x", "i", "s", "t", "s", "=", "i", "n", "i", "t", "_", "b", "o", "o", "t", "\n">>

\* android-info.txt: a partition the device has
InfoPartition ==
    <<"r", "e", "q", "u", "i", "r", "e", " ", "p", "a", "r", "t", "i", "t", "i", "o", "n", "-", "e", "x", "i", "s", "t", "s", "=", "b", "o", "o", "t", "\n">>

\* android-info.txt: a partition the device lacks
InfoNoPartition ==
    <<"r", "e", "q", "u", "i", "r", "e", " ", "p", "a", "r", "t", "i", "t", "i", "o", "n", "-", "e", "x", "i", "s", "t", "s", "=", "u", "s", "e", "r", "d", "a", "t", "a", "_", "x", "\n">>

\* android-info.txt: a partition the device has and flashZip does not know
InfoOddPartition ==
    <<"r", "e", "q", "u", "i", "r", "e", " ", "p", "a", "r", "t", "i", "t", "i", "o", "n", "-", "e", "x", "i", "s", "t", "s", "=", "r", "a", "d", "i", "o", "\n">>

BootloaderImg == <<"b", "o", "o", "t", "l", "o", "a", "d", "e", "r", "-", "p", "-", "1", ".", "i", "m", "g">>

RadioImg == <<"r", "a", "d", "i", "o", "-", "p", "-", "1", ".", "i", "m", "g">>

ImageZip == <<"i", "m", "a", "g", "e", "-", "p", "-", "1", ".", "z", "i", "p">>

BootImg == <<"b", "o", "o", "t", ".", "i", "m", "g">>

VendorBootImg == <<"v", "e", "n", "d", "o", "r", "_", "b", "o", "o", "t", ".", "i", "m", "g">>

SystemImg == <<"s", "y", "s", "t", "e", "m", ".", "i", "m", "g">>

VendorImg == <<"v", "e", "n", "d", "o", "r", ".", "i", "m", "g">>

Image(filename) == Entry(filename, RawBlob(40))
Archive(filename, entries) == Entry(filename, [entries |-> entries])

Infos ==
    {InfoMet, InfoUnmet, InfoUnmetSecond, InfoUnmetSecondCRLF, InfoUndefined, InfoPartition,
     InfoNoPartition, InfoOddPartition, InfoSlotPartition, InfoOddSlot}

\* a factory image with every kind of entry
WholePackage ==
    <<Image(BootloaderImg), Image(RadioImg),
      Archive(ImageZip, <<Entry(AndroidInfoTxt, InfoMet), Image(BootImg), Image(VendorBootImg),
                          Image(SuperEmptyImg), Image(SystemImg), Image(VendorImg)>>),
      Image(AvbPkmdBin)>>

\* factory images with boot.img and requirements only, without requirements,
\* and without the nested archive
SmallPackages ==
    {<<Archive(ImageZip, <<Entry(AndroidInfoTxt, info), Image(BootImg)>>)>> : info \in Infos}
    \cup {<<Archive(ImageZip, <<Image(SystemImg)>>)>>, <<Image(RadioImg)>>}

\* factory images whose archive has vendor_boot.img before boot.img, and
\* vendor_boot.img without boot.img
BootPackages ==
    {<<Archive(ImageZip, <<Image(VendorBootImg), Image(BootImg)>>)>>,
     <<Archive(ImageZip, <<Image(VendorBootImg)>>)>>}

\* a bootloader without slots and logical partitions, in fastbootd or not,
\* with or without a snapshot update under way
SimpleConfig == DevConfig(Known(No), Absent, Known(SmallDownloads), Known(No))
ZipConfigs ==
    {SimpleConfig,
     [SimpleConfig EXCEPT !.userspace = Known(Yes),
                          !.snapshot = Known(<<"m", "e", "r", "g", "i", "n", "g">>),
                          !.superName = Known(<<"s", "p">>)]}

InitZip ==
    /\ \/ /\ \E wipe \in BOOLEAN : prog = <<OpFlashZip(WholePackage, wipe)>>
          /\ \E cfg \in ZipConfigs : dev = Device(cfg)
          /\ budget = [Budget(0, 0) EXCEPT !.timeouts = 0]
       \/ /\ \E entries \in SmallPackages : prog = <<OpFlashZip(entries, FALSE)>>
          /\ dev = Device(SimpleConfig)
          /\ budget = [Budget(0, MaxFaults) EXCEPT !.timeouts = MaxTimeouts]
       \/ /\ \E entries \in BootPackages : prog = <<OpFlashZip(entries, FALSE)>>
          /\ dev = Device(SimpleConfig)
          /\ budget = [Budget(0, 0) EXCEPT !.timeouts = 0]
       \/ /\ prog = <<OpFlashZip(<<Archive(ImageZip, <<Image(SystemImg)>>)>>, FALSE)>>
          /\ dev = Device(PlainConfig)
          /\ budget = [Budget(0, 0) EXCEPT !.timeouts = 0]
    /\ \E android \in BOOLEAN :
            conn = [Connected EXCEPT !.android = android, !.connects = MaxReboots]
    /\ stk = <<>>
    /\ ret = None
    /\ wr = <<>>
    /\ rd = <<>>
    /\ inq = <<>>
    /\ timer = 0
    /\ timedOut = {}
    /\ nextId = 1
    /\ clock = 0
    /\ ticking = NotTicking
    /\ trace = <<>>
    /\ settles = <<>>

FlashZipStep ==
    \/ FlashZip
    \/ FlashZipFailed
    \/ FlashZipIsUserspace
    \/ FlashZipInBootloader
    \/ FlashZipBootloader
    \/ FlashZipBootloaderRebooted
    \/ FlashZipRadio
    \/ FlashZipRadioRebooted
    \/ FlashZipSnapshot
    \/ FlashZipCancelled
    \/ FlashZipRequirements
    \/ FlashZipBootCritical
    \/ FlashZipFastbootd
    \/ FlashZipSuperName
    \/ FlashZipSuperUploaded
    \/ FlashZipSuperUpdated
    \/ FlashZipSystem
    \/ FlashZipIsUserspaceAgain
    \/ FlashZipInBootloaderAgain
    \/ FlashZipKeyErased
    \/ FlashZipCustomKey
    \/ FlashZipWiped

NextZip ==
    \/ ClientCall
    \/ ClientSettle
    \/ RunCommand
    \/ ReadResponse
    \/ RunWithTimeoutDone
    \/ TimerFire
    \/ DevRecv
    \/ Deliver
    \/ TransferError
    \/ GetVariable
    \/ GetVariableDone
    \/ GetDownloadSize
    \/ GetDownloadSizeDone
    \/ SendRawPayload
    \/ SendRawPayloadSent
    \/ Upload
    \/ UploadDownloaded
    \/ UploadSent
    \/ UploadDone
    \/ Reboot
    \/ RebootDone
    \/ FlashBlob
    \/ FlashBlobHasSlot
    \/ FlashBlobCurrentSlot
    \/ FlashBlobDownloadSize
    \/ FlashBlobIsLogical
    \/ FlashBlobResizedZero
    \/ FlashBlobResized
    \/ FlashBlobUploaded
    \/ FlashBlobFlashed
    \/ FlashZipStep
    \/ TryFlashImages
    \/ FlashEntryBlob
    \/ FlashEntryBlobDone
    \/ TryReboot
    \/ TryRebootRebooted
    \/ TryRebootConnected
    \/ RebootWaited
    \/ CheckRequirements
    \/ CheckRequirementsChecked
    \/ RunWithTimedProgress
    \/ RunWithTimedProgressDone
    \/ WaitForConnect
    \/ DeviceReboots
    \/ ConnectEvent
    \/ UsbOpDone
    \/ UsbOpFailed

SpecZip == InitZip /\ [][NextZip]_vars

(***************************************************************************)
(* runWithTimedProgress with its ticking loop.  The work is a promise that *)
(* settles when the environment says so; animation frames come after      *)
(* delays the environment chooses, and the clock has then moved on.        *)
(***************************************************************************)
OpRunWithTimedProgress(action, item, duration, work) ==
    [op |-> "runWithTimedProgress", action |-> action, item |-> item, duration |-> duration,
     work |-> work]

\* the error the work rejects with
WorkError == Err("WorkError", <<>>, <<>>)

\* the closure of the progress loop as it awaits waitForFrame()
Ticking(action, item, duration, startTime, now) ==
    [on |-> TRUE, action |-> action, item |-> item, duration |-> duration,
     startTime |-> startTime, now |-> now, stop |-> FALSE]

\* onProgress(action, item, (now - startTime) / duration) of the loop
Tick(t) == FactoryProgress(t.action, t.item, t.now - t.startTime, t.duration)

\* where runWithTimedProgress, suspended at pc with its work and its loop in
\* the states given, gets to: the race settles with the first of the two
\* promises, stop is set, and the loop and then the work are awaited
AfterLoop(work) ==
    CASE work = "ok" -> [pc |-> "return", stop |-> TRUE]
      [] work = "err" -> [pc |-> "throw", stop |-> TRUE]
      [] OTHER -> [pc |-> "workPromise", stop |-> TRUE]
Resume(pc, work, on) ==
    CASE pc = "race" /\ work = "err" -> [pc |-> "throw", stop |-> FALSE]
      [] pc = "race" /\ work = "ok" /\ on -> [pc |-> "progressPromise", stop |-> TRUE]
      [] pc = "race" /\ ~on -> AfterLoop(work)
      [] pc = "progressPromise" /\ ~on -> AfterLoop(work)
      [] pc = "workPromise" -> AfterLoop(work)
      [] OTHER -> [pc |-> pc, stop |-> pc # "race"]

\* runWithTimedProgress goes on as far as it can after an event that has left
\* its frame as f, the loop as t and the trace as tr
Resuming(f, t, tr) ==
    LET to == Resume(f.pc, f.a.work, t.on)
    IN  /\ ticking' = [t EXCEPT !.stop = to.stop]
        /\ IF to.pc = "return"
           THEN /\ stk' = Tail(stk)
                /\ ret' = Ok(Undefined)
                /\ trace' = Append(tr, FactoryProgress(f.a.action, f.a.item, 1, 1))
           ELSE IF to.pc = "throw"
           THEN /\ stk' = Tail(stk)
                /\ ret' = Thrown(WorkError)
                /\ trace' = tr
           ELSE /\ stk' = <<[f EXCEPT !.pc = to.pc]>> \o Tail(stk)
                /\ ret' = ret
                /\ trace' = tr

TimedQuiet == UNCHANGED <<conn, prog, wr, rd, inq, dev, timer, timedOut, nextId, budget, settles>>

\* the call: the first progress, the first turn of the loop up to its
\* waitForFrame(), and the race
TimedProgress ==
    /\ At("runWithTimedProgress", "start")
    /\ LET t == Ticking(Top.a.action, Top.a.item, Top.a.duration, clock, clock)
       IN  Resuming([Top EXCEPT !.pc = "race"], t,
                    trace \o <<FactoryProgress(Top.a.action, Top.a.item, 0, 1), Tick(t)>>)
    /\ clock' = clock
    /\ TimedQuiet

\* the delays after which an animation frame may come
FrameDelays(duration) == {(duration * 3) \div 10, (duration * 7) \div 10}

\* the frame the loop waits for comes: the loop ends if stop is set or the
\* time it read last has reached the target; else it reads the time and
\* reports again
AnimationFrame ==
    /\ Blocked /\ ticking.on
    /\ \E delay \in FrameDelays(ticking.duration) :
        /\ clock' = clock + delay
        /\ LET goesOn == ~ticking.stop /\ ticking.now < ticking.startTime + ticking.duration
               t == IF goesOn THEN [ticking EXCEPT !.now = clock + delay]
                    ELSE [ticking EXCEPT !.on = FALSE]
               tr == IF goesOn THEN Append(trace, Tick(t)) ELSE trace
           IN  IF At("runWithTimedProgress", Top.pc)
               THEN Resuming(Top, t, tr)
               ELSE ticking' = t /\ trace' = tr /\ UNCHANGED <<stk, ret>>
    /\ TimedQuiet

\* the work resolves or rejects
WorkSettles ==
    /\ Blocked
    /\ stk # <<>> /\ Top.fn = "runWithTimedProgress" /\ Top.a.work = "pending"
    /\ \E work \in {"ok", "err"} :
            Resuming([Top EXCEPT !.a.work = work], ticking,
                     Append(trace, [t |-> "work", r |-> work]))
    /\ clock' = clock
    /\ TimedQuiet

\* the calls flashZip makes, with work that is pending or has resolved
TimedPrograms ==
    {<<OpRunWithTimedProgress(call[1], call[2], call[3], work)>> :
        call \in {<<"reboot", "device", BOOTLOADER_REBOOT_TIME>>,
                  <<"reboot", "device", FASTBOOTD_REBOOT_TIME>>,
                  <<"wipe", "data", USERDATA_ERASE_TIME>>},
        work \in {"pending", "ok"}}

InitTimed ==
    /\ prog \in TimedPrograms
    /\ conn = Connected
    /\ dev = Device(PlainConfig)
    /\ budget = Budget(0, 0)
    /\ stk = <<>>
    /\ ret = None
    /\ wr = <<>>
    /\ rd = <<>>
    /\ inq = <<>>
    /\ timer = 0
    /\ timedOut = {}
    /\ nextId = 1
    /\ clock = 0
    /\ ticking = NotTicking
    /\ trace = <<>>
    /\ settles = <<>>

NextTimed ==
    \/ ClientCall
    \/ ClientSettle
    \/ TimedProgress
    \/ AnimationFrame
    \/ WorkSettles

SpecTimed == InitTimed /\ [][NextTimed]_vars

(***************************************************************************)
(* _sendRawPayload called on its own, with buffers of up to                *)
(* MaxPayloadChunks transfers, on a transport that accepts every transfer  *)
(* or rejects one.                                                         *)
(***************************************************************************)
MaxPayloadChunks == 21

OpSendRawPayload(byteLength) == [op |-> "_sendRawPayload", buffer |-> byteLength]

\* buffers that end on a transfer, one byte after it, and one byte before the
\* next one
PayloadLengths ==
    {k * BULK_TRANSFER_SIZE + d :
        k \in {0, 1, 9, 10, MaxPayloadChunks - 1}, d \in {0, 1, BULK_TRANSFER_SIZE - 1}}

InitPayload ==
    /\ prog \in {<<OpSendRawPayload(n)>> : n \in PayloadLengths}
    /\ conn = Connected
    /\ dev = Device(PlainConfig)
    /\ budget \in {Budget(0, 0), Budget(0, 1)}
    /\ stk = <<>>
    /\ ret = None
    /\ wr = <<>>
    /\ rd = <<>>
    /\ inq = <<>>
    /\ timer = 0
    /\ timedOut = {}
    /\ nextId = 1
    /\ clock = 0
    /\ ticking = NotTicking
    /\ trace = <<>>
    /\ settles = <<>>

PayloadStep ==
    \/ ClientCall
    \/ ClientSettle
    \/ SendRawPayload
    \/ SendRawPayloadSent

\* the transport settles the transferOut that is outstanding
TransferOutSettles ==
    \/ DevRecv
    \/ TransferError

NextPayload ==
    \/ PayloadStep
    \/ TransferOutSettles

SpecPayload ==
    InitPayload /\ [][NextPayload]_vars /\ WF_vars(PayloadStep) /\ WF_vars(TransferOutSettles)

(***************************************************************************)
(* Histories: what the trace says about a call.                            *)
(***************************************************************************)
Indices == 1..Len(trace)
IsCall(i) == trace[i].t = "call"
IsSettle(i) == trace[i].t = "settle"
IsCmd(i) == trace[i].t = "cmd"
IsData(i) == trace[i].t = "data"
IsIn(i) == trace[i].t = "in"
IsSplit(i) == trace[i].t = "split"
IsFailed(i) == trace[i].t = "failed"

RECURSIVE CallOf(_)
\* the call within which event i happened
CallOf(i) == IF i = 0 \/ IsCall(i) THEN i ELSE CallOf(i - 1)

RECURSIVE EndOf(_)
\* the last event before the call that follows event i
EndOf(i) == IF i = Len(trace) \/ IsCall(i + 1) THEN i ELSE EndOf(i + 1)

\* the events of the call made at c, up to the next call
During(c) == (c + 1)..EndOf(c)
Settled(c) == \E i \in During(c) : IsSettle(i)
ResultOf(c) == trace[CHOOSE i \in During(c) : IsSettle(i)].r

Tag(pkt) == SubSeq(pkt, 1, Min(4, Len(pkt)))
Body(pkt) == SubSeq(pkt, Min(4, Len(pkt)) + 1, Len(pkt))

\* the packets the reads of command id have taken, in order
RECURSIVE TakenFrom(_, _)
TakenFrom(id, i) ==
    IF i > Len(trace) THEN <<>>
    ELSE (IF IsIn(i) /\ trace[i].by = id THEN <<trace[i].pkt>> ELSE <<>>) \o TakenFrom(id, i + 1)
Taken(id) == TakenFrom(id, 1)

\* the commands (and payloads) whose write or whose read of the response is
\* outstanding
InFlight ==
    {w.id : w \in {wr[i] : i \in 1..Len(wr)}} \cup {r.id : r \in {rd[i] : i \in 1..Len(rd)}}

(***************************************************************************)
(* Claims.                                                                 *)
(***************************************************************************)
\* C1: at most one command is in flight at any time, also after a getVariable
\* that timed out: no command is written while the transfer of an earlier
\* command is outstanding, and every response packet is taken by the read of
\* the command it answers.
C1_OneCommandInFlight ==
    /\ Cardinality(InFlight) <= 1
    /\ \A i \in Indices : IsIn(i) => trace[i].by = trace[i].for

\* the command written during the call made at c (none: 0)
CmdsDuring(c) == {i \in During(c) : IsCmd(i)}
CmdIdOf(c) == IF CmdsDuring(c) = {} THEN 0 ELSE trace[CHOOSE i \in CmdsDuring(c) : TRUE].id
Calls(name) == {c \in Indices : IsCall(c) /\ trace[c].op.op = name}

RECURSIVE InfoText(_)
\* the text that the INFO packets lines add up to: each body and a line feed
InfoText(lines) ==
    IF lines = <<>> THEN <<>>
    ELSE SubstringFrom(Utf8Decode(Head(lines)), 4) \o <<"\n">> \o InfoText(Tail(lines))

\* what runCommand is to give for the packets pkts (INFO packets and a
\* terminal one), with the terminal packet read as the status tag and the
\* remainder rest
ResponseFor(pkts, tag, rest) ==
    LET lines == SubSeq(pkts, 1, Len(pkts) - 1)
    IN  IF tag = OKAY
        THEN Ok([text |-> InfoText(lines) \o rest, hasData |-> FALSE, dataSize |-> <<>>])
        ELSE IF tag = DATA
        THEN Ok([text |-> InfoText(lines), hasData |-> TRUE, dataSize |-> rest])
        ELSE Thrown(FastbootError(tag, rest))

\* a call of runCommand that has settled after its command was written
Answered(c) == Settled(c) /\ CmdIdOf(c) # 0 /\ Taken(CmdIdOf(c)) # <<>>
LastOf(q) == q[Len(q)]

SettleOf(c) == CHOOSE i \in During(c) : IsSettle(i)
Within(c) == {i \in During(c) : i < SettleOf(c)}

\* the terminal packet that the read of command id took within the call c:
\* the set of the places in the trace (none or one)
TerminalWithin(c, id) ==
    {i \in Within(c) : IsIn(i) /\ trace[i].by = id /\ Tag(trace[i].pkt) # INFO}
FailedWithin(c, id) ==
    \E i \in Within(c) : IsFailed(i) /\ trace[i].id = id /\ trace[i].main
TimedOut(gv) == \E i \in 1..Len(settles) : settles[i] = [gv |-> gv, r |-> Thrown(TimeoutError)]
GvOf(c) == IF CmdsDuring(c) = {} THEN 0 ELSE trace[CHOOSE i \in CmdsDuring(c) : TRUE].gv

SettlesOf(gv) == {i \in 1..Len(settles) : settles[i].gv = gv}
GetVariablePending == \E i \in 1..Len(stk) : stk[i].fn = "getVariable" /\ stk[i].pc = "await"

\* C4: every getVariable settles, and exactly once: with the outcome of its
\* command and no TimeoutError if the terminal response is read before the
\* timer fires, with TimeoutError if the timer fires first, and nothing that
\* arrives later settles it again.
C4_SettlesOnce ==
    /\ [](/\ \A i \in 1..Len(settles) : Cardinality(SettlesOf(settles[i].gv)) = 1
          /\ \A c \in Calls("getVariable") :
                Settled(c) /\ CmdIdOf(c) # 0 =>
                    /\ Cardinality(SettlesOf(GvOf(c))) = 1
                    /\ (ResultOf(c) = Thrown(TimeoutError)) = TimedOut(GvOf(c))
                    /\ (TerminalWithin(c, CmdIdOf(c)) # {}) => ~TimedOut(GvOf(c)))
    /\ (GetVariablePending ~> ~GetVariablePending)

\* a getVariable has timed out and the answer to its command was read later
C4_Witness ==
    \E c \in Calls("getVariable") :
        /\ Settled(c) /\ CmdIdOf(c) # 0
        /\ TimedOut(GvOf(c))
        /\ \E i \in During(c) :
                i > SettleOf(c) /\ IsIn(i) /\ trace[i].by = CmdIdOf(c) /\ Tag(trace[i].pkt) = OKAY

\* the eight hex digits of a length below 2^32, digit by digit
Digits16 == <<"0", "1", "2", "3", "4", "5", "6", "7", "8", "9", "a", "b", "c", "d", "e", "f">>
Hex4(n) ==
    <<Digits16[((n \div 4096) % 16) + 1], Digits16[((n \div 256) % 16) + 1],
      Digits16[((n \div 16) % 16) + 1], Digits16[(n % 16) + 1]>>
Hex8(w) == Hex4(w.hi) \o Hex4(w.lo)

OpOf(i) == trace[CallOf(i)].op.op
SplitsBefore(i) == {k \in CallOf(i)..i : IsSplit(k)}
\* the length of the buffer that the upload running at event i is to send
LengthAt(i) ==
    IF OpOf(i) = "upload" THEN trace[CallOf(i)].op.buffer
    ELSE WideOf(trace[CHOOSE k \in SplitsBefore(i) : \A m \in SplitsBefore(i) : m <= k].size)
Uploading(i) ==
    /\ CallOf(i) # 0
    /\ OpOf(i) = "upload" \/ (OpOf(i) = "flashBlob" /\ SplitsBefore(i) # {})
\* the download command of an upload
IsDownload(d) ==
    /\ IsCmd(d) /\ Uploading(d) /\ LengthAt(d).hi < Limb
    /\ trace[d].text = "download:" \o StrOf(Hex8(LengthAt(d)))
\* the terminal packets that the read of the command written at d has taken
AnswerOf(d) == {j \in (d + 1)..Len(trace) : IsIn(j) /\ trace[j].by = trace[d].id
                                                /\ Tag(trace[j].pkt) # INFO}
\* the answer is DATA with the size asked for
Echoes(j, d) ==
    /\ Tag(trace[j].pkt) = DATA
    /\ ParseInt16(Utf8Decode(Body(trace[j].pkt))) = LengthAt(d)

RECURSIVE DataBytesFrom(_, _)
\* the payload bytes written from event i up to event n
DataBytesFrom(i, n) ==
    IF i > n THEN 0 ELSE (IF IsData(i) THEN trace[i].n ELSE 0) + DataBytesFrom(i + 1, n)

\* C5: upload goes download -> payload -> final response.  Payload is written
\* only after the download command was answered with DATA and the size asked
\* for; an answer without DATA or with another size makes upload fail with no
\* payload byte written; upload returns only after the whole payload and a
\* terminal response read after it, and FAIL there makes upload fail.
C5_UploadHandshake ==
    /\ \A i \in Indices :
            IsData(i) =>
                \E d \in CallOf(i)..i :
                    /\ IsDownload(d)
                    /\ \A k \in (d + 1)..i : ~IsCmd(k)
                    /\ \E j \in AnswerOf(d) : j < i /\ Echoes(j, d)
                    /\ DataBytesFrom(d, i) <= IntOf(LengthAt(d))
    /\ \A d \in Indices :
            IsDownload(d) /\ (\E j \in AnswerOf(d) : ~Echoes(j, d)) =>
                /\ \A i \in During(CallOf(d)) : i > d => ~IsData(i)
                /\ Settled(CallOf(d)) => ResultOf(CallOf(d)).k = "err"
    /\ \A c \in Calls("upload") :
            Settled(c) =>
                /\ ResultOf(c).k = "ok" =>
                        \E d \in Within(c), i \in Within(c), j \in Within(c) :
                            /\ IsDownload(d) /\ IsData(i) /\ d < i /\ i < j
                            /\ DataBytesFrom(d, j) = IntOf(LengthAt(d))
                            /\ IsIn(j) /\ trace[j].by = trace[i].id
                            /\ Tag(trace[j].pkt) \in {OKAY, DATA}
                /\ \A i \in Within(c), j \in Within(c) :
                        IsData(i) /\ IsIn(j) /\ trace[j].by = trace[i].id
                                  /\ Tag(trace[j].pkt) = FAIL =>
                            ResultOf(c) = Thrown(FastbootError(FAIL, Utf8Decode(Body(trace[j].pkt))))

\* an upload has returned after the three steps of the handshake
C5_Witness ==
    \E c \in Calls("upload") :
        /\ Settled(c) /\ ResultOf(c).k = "ok"
        /\ DataBytesFrom(c, SettleOf(c)) = 40
        /\ \E j \in Within(c) : IsIn(j) /\ trace[j].pkt = DATA \o Hex8(WideOf(40))

\* C6: an upload of 2^32 bytes or more fails before anything is written to
\* the transport; for a shorter buffer the download command carries exactly 8
\* hex digits, padded with zeros, whose value is the buffer length.
C6_DownloadSizeDigits ==
    \A c \in Calls("upload") :
        LET length == trace[c].op.buffer
        IN  IF length.hi >= Limb
            THEN /\ \A i \in During(c) : ~IsCmd(i) /\ ~IsData(i)
                 /\ Settled(c) => /\ ResultOf(c).k = "err"
                                  /\ ResultOf(c).v.name = "FastbootError"
            ELSE /\ Settled(c) => CmdsDuring(c) # {}
                 /\ \A d \in CmdsDuring(c) :
                        /\ trace[d].text = "download:" \o StrOf(Hex8(length))
                        /\ Len(Hex8(length)) = 8
                        /\ ParseInt16(Hex8(length)) = length

\* an upload of 2^32 bytes has failed and the command of an upload of
\* 2^32 - 1 bytes has been written
C6_Witness ==
    \E c, d \in Calls("upload") :
        /\ trace[c].op.buffer = Wide(Limb, 0)
        /\ Settled(c) /\ ResultOf(c).k = "err"
        /\ trace[d].op.buffer = Wide(Limb - 1, Limb - 1)
        /\ \E i \in CmdsDuring(d) : trace[i].text = "download:ffffffff"

\* the flash commands of flashBlob
IsFlashCmd(i) == IsCmd(i) /\ trace[i].site = "flashBlob.flash"
FlashCmds(c) == {i \in During(c) : IsFlashCmd(i)}

\* the first split of the call c, and the id of the last command before it
FirstSplit(c) ==
    LET ss == {k \in During(c) : IsSplit(k)}
    IN  IF ss = {} THEN Len(trace) + 1 ELSE CHOOSE k \in ss : \A m \in ss : k <= m
FirstSplitId(c) ==
    LET earlier == {k \in 1..(FirstSplit(c) - 1) : IsCmd(k)}
    IN  IF earlier = {} THEN 0 ELSE trace[CHOOSE k \in earlier : \A m \in earlier : m <= k].id

\* what flashBlob, called at c, has done from its first split on: the splits
\* taken from the generator, the commands and the payload writes
Flashing(c) == {i \in FirstSplit(c)..EndOf(c) : IsSplit(i) \/ IsCmd(i) \/ IsData(i)}
\* the one of the events flashing before i, 0 if i is the first
Before(flashing, i) ==
    LET earlier == {k \in flashing : k < i}
    IN  IF earlier = {} THEN 0 ELSE CHOOSE k \in earlier : \A m \in earlier : m <= k
LastDownload(i) ==
    LET ds == {d \in CallOf(i)..i : IsDownload(d)}
    IN  CHOOSE d \in ds : \A m \in ds : m <= d

\* the upload of the split before the flash command at i is complete: all of
\* its bytes are written and the terminal response after them is read
UploadComplete(i) ==
    LET d == LastDownload(i)
    IN  /\ DataBytesFrom(d, i) = IntOf(LengthAt(d))
        /\ \E k \in d..i, j \in d..i :
                /\ IsData(k) /\ k < j
                /\ IsIn(j) /\ trace[j].by = trace[k].id /\ Tag(trace[j].pkt) \in {OKAY, DATA}

\* C7: from its first split on, flashBlob writes, split by split, the download
\* command, the payload and, after the final response of the upload, the
\* flash command; the next split starts only after the flash command of the
\* one before; a call that returns has issued one flash command per split; all
\* flash commands of a call name the same target.
C7_SplitOrder ==
    \A c \in Calls("flashBlob") :
        /\ \A i \in Flashing(c) :
                LET p == Before(Flashing(c), i)
                IN  /\ IsSplit(i) => p = 0 \/ IsFlashCmd(p)
                    /\ IsCmd(i) => \/ IsDownload(i) /\ IsSplit(p)
                                   \/ IsFlashCmd(i) /\ IsData(p) /\ UploadComplete(i)
                    /\ IsData(i) => IsDownload(p) \/ IsData(p)
        /\ \A i \in FlashCmds(c) : i \in Flashing(c)
        /\ \A i \in FlashCmds(c), k \in FlashCmds(c) : trace[i].text = trace[k].text
        /\ Settled(c) /\ ResultOf(c).k = "ok" =>
                Cardinality(FlashCmds(c)) = Cardinality({i \in During(c) : IsSplit(i)})

\* a flashBlob of two splits has returned
C7_Witness ==
    \E c \in Calls("flashBlob") :
        /\ Settled(c) /\ ResultOf(c).k = "ok"
        /\ Cardinality({i \in During(c) : IsSplit(i)}) = 2
        /\ Cardinality(FlashCmds(c)) = 2

\* the transfers of the uploads and flash commands of the flashBlob called at c
OwnIds(c) ==
    {trace[i].id : i \in {k \in During(c) : (IsCmd(k) \/ IsData(k)) /\ trace[k].id > FirstSplitId(c)}}

\* the upload or the flash command of a split has failed at event i of the
\* call c, whose transfers from the first split on are own: its read took a packet that is no OKAY, INFO or DATA, or the answer
\* to download was not the size asked for, or a transfer of it failed
SplitFailure(c, own, i) ==
    \/ /\ IsIn(i)
       /\ Tag(trace[i].pkt) # INFO
       /\ trace[i].by \in own
       /\ \/ Tag(trace[i].pkt) \notin {OKAY, DATA}
          \/ \E d \in c..i : IsDownload(d) /\ trace[d].id = trace[i].by /\ ~Echoes(i, d)
    \/ IsFailed(i) /\ trace[i].main /\ trace[i].id \in own

\* the error of such a failure, where the trace tells it
ErrorAt(i, r) ==
    IF IsFailed(i) THEN r = Thrown(NetworkError)
    ELSE IF Tag(trace[i].pkt) \notin {OKAY, INFO, DATA}
    THEN r = Thrown(FastbootError(Utf8Decode(Tag(trace[i].pkt)), Utf8Decode(Body(trace[i].pkt))))
    ELSE r.k = "err" /\ r.v.name = "FastbootError" /\ r.v.status = FAIL

\* C8: when the upload or the flash command of a split fails, flashBlob
\* writes nothing more (no command, no payload, no further split) and
\* rejects with that error.
C8_StopsAtFailure ==
    \A c \in Calls("flashBlob") :
        LET own == OwnIds(c)
        IN  \A i \in During(c) :
                SplitFailure(c, own, i) =>
                    /\ \A k \in (i + 1)..EndOf(c) : ~(IsCmd(k) \/ IsData(k) \/ IsSplit(k))
                    /\ Settled(c) => ErrorAt(i, ResultOf(c))

\* the flash command of the first of two splits was answered FAIL and
\* flashBlob has rejected
C8_Witness ==
    \E c \in Calls("flashBlob") :
        /\ trace[c].op.blob = SparseImage
        /\ Settled(c) /\ ResultOf(c) = Thrown(FastbootError(FAIL, <<"n", "o">>))
        /\ Cardinality(FlashCmds(c)) = 1
        /\ \E i \in FlashCmds(c), j \in During(c) :
                IsIn(j) /\ trace[j].by = trace[i].id /\ trace[j].pkt = FailPacket
        /\ Len(SplitBlob(SparseImage, DownloadSizeOf(Ok(Text(dev.cfg.maxDl.v)))).splits) = 2

\* the commands of the call c with the text given
CmdsWith(c, text) == {i \in During(c) : IsCmd(i) /\ trace[i].text = text}
\* the command of the call c that follows event i (none: 0)
CmdAfter(c, i) ==
    LET later == {k \in (i + 1)..EndOf(c) : IsCmd(k)}
    IN  IF later = {} THEN 0 ELSE CHOOSE k \in later : \A m \in later : k <= m

\* the value getVariable returns for the getvar command at d once its read
\* has taken the terminal packet at j: null for FAIL and for an empty text
ValueAt(d, j) ==
    LET pkts == SelectSeq(Taken(trace[d].id), LAMBDA p : Tag(p) = INFO)
        text == InfoText(pkts) \o Utf8Decode(Body(trace[j].pkt))
    IN  IF Tag(trace[j].pkt) = FAIL \/ text = <<>> THEN Null ELSE Text(Trim(text))
\* the getvar command at d has given getVariable a value
HasValue(d) ==
    /\ d # 0
    /\ AnswerOf(d) # {}
    /\ Tag(trace[CHOOSE j \in AnswerOf(d) : TRUE].pkt) \in {OKAY, FAIL}
ValueOf(d) == ValueAt(d, CHOOSE j \in AnswerOf(d) : TRUE)

\* the target of the flashBlob called at c, from what the bootloader has
\* answered to the has-slot command at h and the current-slot command at s
TargetOf(c, h, s) ==
    IF ValueOf(h) = Text(Yes)
    THEN trace[c].op.partition \o "_" \o (IF ValueOf(s).null THEN "null" ELSE StrOf(ValueOf(s).s))
    ELSE trace[c].op.partition

\* C9: the flash target is <partition>_<current-slot> if and only if has-slot
\* of the partition is reported as yes, the partition name otherwise; each
\* flashBlob call asks has-slot, and current-slot if it is yes, itself, so
\* that the target follows a slot that has changed since the call before.
C9_FlashTarget ==
    \A c \in Calls("flashBlob") :
        LET hs == CmdsWith(c, "getvar:has-slot:" \o trace[c].op.partition)
            ss == CmdsWith(c, "getvar:current-slot")
        IN  /\ \A i \in During(c) : IsCmd(i) => \E h \in hs : h <= i
            /\ \A s \in ss : \E h \in hs : h < s /\ HasValue(h) /\ ValueOf(h) = Text(Yes)
            /\ \A h \in hs : HasValue(h) /\ CmdAfter(c, h) # 0 =>
                    (ValueOf(h) = Text(Yes)) = (CmdAfter(c, h) \in ss)
            /\ \A i \in FlashCmds(c) :
                    \E h \in hs :
                        /\ h < i /\ HasValue(h)
                        /\ ValueOf(h) = Text(Yes) => HasValue(CmdAfter(c, h))
                        /\ trace[i].text = "flash:" \o TargetOf(c, h, CmdAfter(c, h))

\* two flashBlob calls, the slot changed in between: the first has flashed
\* system_a, the second system_b
C9_Witness ==
    \E c, d \in Calls("flashBlob") :
        /\ c < d
        /\ \E i \in FlashCmds(c) : trace[i].text = "flash:system_a"
        /\ \E i \in FlashCmds(d) : trace[i].text = "flash:system_b"

IsResize(i) == IsCmd(i) /\ trace[i].site \in {"flashBlob.resizeZero", "flashBlob.resize"}
\* the size flashBlob is to resize a logical partition to: blocks * blockSize
\* of the sparse image (6 blocks of 4096 bytes), the size of any other blob
ExpectedTotal(blob) == IF blob = SparseImage THEN 6 * 4096 ELSE blob.size

\* C10: when is-logical of the target is yes, flashBlob issues
\* resize-logical-partition:<target>:0 and then
\* resize-logical-partition:<target>:<totalBytes> as its next two commands,
\* before the first download, with totalBytes = blocks * blockSize of a sparse
\* blob and the size of any other blob; when is-logical is not yes it issues
\* no resize command.
C10_ResizeLogical ==
    \A c \in Calls("flashBlob") :
        LET hs      == CmdsWith(c, "getvar:has-slot:" \o trace[c].op.partition)
            resizes == {i \in During(c) : IsResize(i)}
        IN  /\ resizes # {} => \E h \in hs : HasValue(h)
            /\ \A i \in resizes, d \in During(c) : IsDownload(d) => i < d
            /\ \A h \in hs :
                HasValue(h) /\ (ValueOf(h) = Text(Yes) => HasValue(CmdAfter(c, h))) =>
                    LET target == TargetOf(c, h, CmdAfter(c, h))
                        ls     == CmdsWith(c, "getvar:is-logical:" \o target)
                    IN  /\ resizes # {} => \E l \in ls : HasValue(l) /\ ValueOf(l) = Text(Yes)
                        /\ \A l \in ls :
                            HasValue(l) /\ CmdAfter(c, l) # 0 =>
                                LET zero == CmdAfter(c, l)
                                    full == CmdAfter(c, zero)
                                IN  IF ValueOf(l) = Text(Yes)
                                    THEN /\ trace[zero].text =
                                                "resize-logical-partition:" \o target \o ":0"
                                         /\ full # 0 =>
                                              /\ trace[full].text =
                                                    "resize-logical-partition:" \o target \o ":"
                                                    \o ToString(ExpectedTotal(trace[c].op.blob))
                                              /\ resizes \subseteq {zero, full}
                                              /\ CmdAfter(c, full) # 0 =>
                                                    IsDownload(CmdAfter(c, full))
                                    ELSE resizes = {}

\* a sparse image was flashed to a logical partition: both resize commands
\* and then the first download
C10_Witness ==
    \E c \in Calls("flashBlob") :
        /\ trace[c].op.blob = SparseImage
        /\ \E i \in During(c), k \in During(c), d \in During(c) :
                /\ i < k /\ k < d
                /\ IsCmd(i) /\ trace[i].text = "resize-logical-partition:system_a:0"
                /\ IsCmd(k) /\ trace[k].text = "resize-logical-partition:system_a:24576"
                /\ IsDownload(d)

\* the frame of the flashBlob call that is running, once it holds the limit
\* _getDownloadSize has returned
FlashFrame == stk[Len(stk)]
HasLimit ==
    /\ stk # <<>>
    /\ FlashFrame.fn = "flashBlob"
    /\ FlashFrame.pc \in {"isLogical", "resizeZero", "resize", "upload", "flash"}
\* the max-download-size command of the call c (none: 0)
LimitCmd(c) ==
    LET ds == CmdsWith(c, "getvar:max-download-size")
    IN  IF ds = {} THEN 0 ELSE CHOOSE d \in ds : TRUE
\* what the bootloader has reported for the variable asked at d: null when
\* the query was not written, timed out, failed or was answered with nothing
Reported(d) ==
    IF d = 0 \/ TimedOut(trace[d].gv) \/ ~HasValue(d) THEN Null ELSE ValueOf(d)
\* the limit for the value reported: min(hex value, 1 GiB), and 512 MiB for
\* a value that is absent or is no hex number
LimitFor(v) ==
    IF v.null \/ ParseInt16(v.s).nan
    THEN J(DEFAULT_DOWNLOAD_SIZE)
    ELSE JOf(MathMin(ParseInt16(v.s), MAX_DOWNLOAD_SIZE))

\* C11: the limit flashBlob uses is min(hex value of max-download-size, 1 GiB)
\* when the variable is reported and parses as hex, and 512 MiB when it is
\* absent, the query fails or times out, or the value is no hex number; it is
\* always a positive integer of at most 1 GiB, and no flashBlob call fails for
\* the image being taken as not sparse.
C11_DownloadSize ==
    /\ HasLimit =>
        LET m == FlashFrame.a.maxDlSize
        IN  /\ ~m.nan
            /\ m.n > 0 /\ m.n <= MAX_DOWNLOAD_SIZE
            /\ m = LimitFor(Reported(LimitCmd(CallOf(Len(trace)))))
    /\ \A c \in Calls("flashBlob") :
            Settled(c) /\ trace[c].op.blob = RawBlob(16384) => ResultOf(c) # Thrown(ImageError)

RECURSIVE GCD(_, _)
GCD(a, b) == IF b = 0 THEN a ELSE GCD(b, a % b)
\* the fraction of event i in lowest terms
Fraction(i) ==
    LET g == GCD(trace[i].num, trace[i].den)
    IN  [num |-> trace[i].num \div g, den |-> trace[i].den \div g]
\* the fractions flashBlob, called at c, has passed to its onProgress
FlashProgressOf(c) == {i \in During(c) : trace[i].t = "flashProgress"}
RECURSIVE SplitBytesFrom(_, _)
\* the logged bytes of the splits taken from event i up to event n
SplitBytesFrom(i, n) ==
    IF i > n THEN 0 ELSE (IF IsSplit(i) THEN trace[i].bytes ELSE 0) + SplitBytesFrom(i + 1, n)
Completed(c) == Settled(c) /\ ResultOf(c).k = "ok"

\* C12: for every flashBlob call that completes, every fraction passed to
\* onProgress lies in [0, 1], the fractions never decrease, and the last one
\* is exactly 1; the logged bytes of the splits add up to totalBytes.
C12_Progress ==
    \A c \in Calls("flashBlob") :
        Completed(c) =>
            LET ps == FlashProgressOf(c)
            IN  /\ ps # {}
                /\ \A i \in ps :
                        /\ trace[i].den > 0
                        /\ 0 <= trace[i].num /\ trace[i].num <= trace[i].den
                /\ \A i, k \in ps :
                        i < k => Fraction(i).num * Fraction(k).den
                                    <= Fraction(k).num * Fraction(i).den
                /\ \A i \in ps : (\A k \in ps : k <= i) => trace[i].num = trace[i].den
                /\ SplitBytesFrom(c, EndOf(c)) = ExpectedTotal(trace[c].op.blob)

\* the splits the splitBlob called at c has yielded
YieldsOf(c) == {i \in During(c) : trace[i].t = "yield"}
\* the blocks the chunks of an image stand for, read from its chunk headers
BlocksOf(image) ==
    SumOf([k \in 1..Len(image.chunks) |-> ParseChunkHeader(image.chunks[k]).blocks],
          Len(image.chunks))
HeaderOf(image) == ParseFileHeader(image.head)
\* a sparse image whose header counts its chunks and their blocks
WellFormed(image) ==
    /\ HeaderOf(image).k = "ok"
    /\ HeaderOf(image).hdr.chunks = Len(image.chunks)
    /\ HeaderOf(image).hdr.blocks = BlocksOf(image)
\* the split size makes splitBlob split the blob
ForcesSplit(op) == ~JsLe(op.blob.size, op.splitSize)

\* C13: for a sparse image whose chunk blocks add up to the header's total
\* and a split size that forces splitting, every split splitBlob yields is a
\* sparse image of its own for the whole partition: its header has the
\* input's total of blocks and counts the chunks it holds, and the blocks of
\* its chunks, leading and trailing Skip chunks included, add up to the total.
C13_SplitsAreWholeImages ==
    \A c \in Calls("splitBlob") :
        WellFormed(trace[c].op.blob) /\ ForcesSplit(trace[c].op) =>
            \A i \in YieldsOf(c) :
                LET image == trace[i].split.data
                IN  /\ HeaderOf(image).k = "ok"
                    /\ HeaderOf(image).hdr.blocks = HeaderOf(trace[c].op.blob).hdr.blocks
                    /\ HeaderOf(image).hdr.chunks = Len(image.chunks)
                    /\ BlocksOf(image) = HeaderOf(image).hdr.blocks

\* an image of three chunks was split in three, the middle split with a Skip
\* chunk on either side
C13_Witness ==
    \E c \in Calls("splitBlob") :
        /\ WellFormed(trace[c].op.blob) /\ ForcesSplit(trace[c].op)
        /\ Settled(c)
        /\ Cardinality(YieldsOf(c)) = 3
        /\ \E i \in YieldsOf(c) :
                LET chunks == trace[i].split.data.chunks
                IN  /\ Len(chunks) = 3
                    /\ chunks[1].type = ChunkSkip /\ chunks[1].blocks > 0
                    /\ chunks[3].type = ChunkSkip /\ chunks[3].blocks > 0

\* the bytes of an image as it is sent: the 28-byte header, and for every
\* chunk its 12-byte header and its data
EncodedSize(image) ==
    FILE_HEADER_SIZE
        + SumOf([k \in 1..Len(image.chunks) |-> CHUNK_HEADER_SIZE + image.chunks[k].data],
                Len(image.chunks))
\* a chunk of the image does not fit into a split of n bytes even alone, between
\* the file header and the two Skip chunks that may surround it
ChunkTooLarge(image, n) ==
    \E k \in 1..Len(image.chunks) :
        FILE_HEADER_SIZE + 3 * CHUNK_HEADER_SIZE + image.chunks[k].data > n

\* C14: every split splitBlob yields is, as encoded (header, 12 bytes per
\* chunk, payloads, the added Skip chunks included), not longer than the
\* split size, unless a chunk of the input does not fit into a split alone.
C14_SplitFits ==
    \A c \in Calls("splitBlob") :
        LET op == trace[c].op
        IN  WellFormed(op.blob) /\ ~op.splitSize.nan
                /\ ~ChunkTooLarge(op.blob, op.splitSize.n) =>
                    \A i \in YieldsOf(c) : EncodedSize(trace[i].split.data) <= op.splitSize.n

\* C15: when the blob is not larger than the split size, splitBlob yields one
\* split, whose data are the blob as it is (header, checksum and chunks
\* untouched), for a sparse and for any other blob, and then ends.
C15_NoSplitShortcut ==
    \A c \in Calls("splitBlob") :
        JsLe(trace[c].op.blob.size, trace[c].op.splitSize) =>
            /\ Cardinality(YieldsOf(c)) <= 1
            /\ \A i \in YieldsOf(c) : trace[i].split.data = trace[c].op.blob
            /\ Settled(c) =>
                /\ ResultOf(c) = Ok(Undefined)
                /\ YieldsOf(c) # {}
                /\ \A i \in YieldsOf(c) : i < SettleOf(c)

\* splitBlob has ended after a sparse image with a checksum in its header,
\* or after a blob that is no sparse image, smaller than the split size
C15_Witness ==
    /\ \E c \in Calls("splitBlob") :
            /\ Settled(c)
            /\ JsLe(trace[c].op.blob.size, trace[c].op.splitSize)
            /\ \/ /\ HeaderOf(trace[c].op.blob).k = "ok"
                  /\ trace[c].op.blob.head.crc32 # 0
                  /\ Len(trace[c].op.blob.chunks) = 2
               \/ trace[c].op.blob = RawBlob(40)

\* the call made before the call at c, which follows the settlement of it
CallBefore(c) == CallOf(c - 1)
\* what createImage was given at the call d: a header whose block size is a
\* multiple of 4 and which counts the chunks given
ValidBuild(d) ==
    /\ trace[d].op.header.blockSize % 4 = 0
    /\ trace[d].op.header.chunks = Len(trace[d].op.chunks)
\* the chunks decoded are the chunks given, by type, blocks and payload
SameChunks(decoded, given) ==
    /\ Len(decoded) = Len(given)
    /\ \A k \in 1..Len(given) :
            /\ decoded[k].type = given[k].type
            /\ decoded[k].blocks = given[k].blocks
            /\ decoded[k].data = given[k].data

FieldsOf(view) == SparseHeader(view.blockSize, view.blocks, view.chunks, view.crc32)

\* C17: parseFileHeader returns null, without raising, for every 28-byte
\* buffer whose first 4 bytes are not 3A FF 26 ED (0xED26FF3A, little endian),
\* whatever follows; with the magic it raises ImageError when the major
\* version is not 1, when the header sizes are not 28 and 12, or when the
\* block size is no multiple of 4, and returns the header otherwise.
C17_ParseFileHeader ==
    \A c \in Calls("parseFileHeader") :
        Settled(c) =>
            LET view == trace[c].op.view
            IN  IF view.magic # <<58, 255, 38, 237>>
                THEN ResultOf(c) = Ok(NotSparse)
                ELSE IF \/ view.major # 1
                        \/ view.fileHdrSize # 28 \/ view.chunkHdrSize # 12
                        \/ view.blockSize % 4 # 0
                THEN ResultOf(c) = Thrown(ImageError)
                ELSE ResultOf(c) = Ok(Parsed(FieldsOf(view)))

\* a buffer with a foreign magic and an unsupported version has given null
C17_Witness ==
    \E c \in Calls("parseFileHeader") :
        /\ Settled(c)
        /\ trace[c].op.view.magic = <<237, 38, 255, 58>>
        /\ trace[c].op.view.major = 2
        /\ trace[c].op.view.blockSize = 4098
        /\ ResultOf(c) = Ok(NotSparse)


(***************************************************************************)
(* C18.  waitForConnect and the validate sequences.                        *)
(***************************************************************************)
Outcomes == {i \in 1..Len(trace) : trace[i].t = "outcome"}
\* the validate sequences that have got as far as open and have ended
Ended == {i \in Outcomes : trace[i].at # "validate"}
Waiters == {i \in 1..Len(trace) : trace[i].t = "waiter"}
\* the waiter registered at j is still pending at i: no outcome in between
\* has ended a validate sequence
PendingAt(j, i) == j < i /\ ~\E k \in Ended : j < k /\ k < i
\* the place in the trace where the sequence that ends at i has started
StartOf(i) == CHOOSE j \in 1..Len(trace) : trace[j].t = "sequence" /\ trace[j].seq = trace[i].seq

\* C18: when a validate sequence (open, reset, selectConfiguration,
\* claimInterface) ends while a waitForConnect is pending, its outcome
\* settles that waiter, resolving it on success and rejecting it on failure;
\* no waiter is settled twice; and the failure of a sequence of the connect
\* listener that has been delivered to the waiter is not thrown again by the
\* listener.
C18_WaiterSettledOnce ==
    /\ \A i \in Ended : \A j \in Waiters :
            PendingAt(j, i) =>
                /\ trace[i].settled = trace[j].w
                /\ (trace[i].r.k = "err" /\ trace[i].from = "event") => ~trace[i].unhandled
    /\ \A i, k \in Outcomes :
            (trace[i].settled # 0 /\ trace[i].settled = trace[k].settled) => i = k

\* the same for the sequences that the connect listener starts while the
\* waiter is already pending
C18_WaiterRegisteredFirst ==
    \A i \in Ended : \A j \in Waiters :
        (PendingAt(j, i) /\ j < StartOf(i)) =>
            /\ trace[i].settled = trace[j].w
            /\ (trace[i].r.k = "err" /\ trace[i].from = "event") => ~trace[i].unhandled


(***************************************************************************)
(* C19.  The order of the stages of flashZip.                              *)
(***************************************************************************)
Commands == {i \in 1..Len(trace) : trace[i].t = "cmd"}

\* the stages in their order; the stage before the first is the return to
\* the bootloader of a device that is found in fastbootd
StageOrder ==
    <<"bootloader pack", "reboot", "radio pack", "reboot again", "snapshot cancel",
      "requirements", "boot-critical images", "super partition", "system images",
      "return to bootloader", "custom AVB key", "wipe">>

\* the stage a command belongs to, by the await of flashZip it is written under
StageNamed(stage) ==
    CASE stage \in {"isUserspace", "toBootloader"} -> 0
      [] stage = "bootloader" -> 1
      [] stage = "bootloaderReboot" -> 2
      [] stage = "radio" -> 3
      [] stage = "radioReboot" -> 4
      [] stage \in {"snapshot", "cancel"} -> 5
      [] stage = "requirements" -> 6
      [] stage = "bootCritical" -> 7
      [] stage \in {"fastbootd", "superName", "superUpload", "updateSuper"} -> 8
      [] stage = "system" -> 9
      [] stage \in {"isUserspaceAgain", "toBootloaderAgain"} -> 10
      [] stage \in {"eraseKey", "customKey"} -> 11
      [] stage = "wipe" -> 12
      [] OTHER -> 0 - 1
StageAt(i) == StageNamed(trace[i].stage)

\* the partitions in the order the stages flash them
FlashOrder ==
    <<"bootloader", "radio", "boot", "dt", "dtbo", "init_boot", "pvmfw", "recovery",
      "vbmeta_system", "vbmeta_vendor", "vbmeta", "vendor_boot", "vendor_kernel_boot",
      "odm", "odm_dlkm", "product", "system_ext", "system", "vendor_dlkm", "vendor",
      "avb_custom_key">>
\* the place in FlashOrder of the partition a flash command names, 0 if the
\* command is no flash command of a partition of the list
FlashPlace(text) ==
    IF \E k \in 1..Len(FlashOrder) : text = "flash:" \o FlashOrder[k]
    THEN CHOOSE k \in 1..Len(FlashOrder) : text = "flash:" \o FlashOrder[k]
    ELSE 0

\* the commands that are not queries, each with the stages it may be written in
StagesOf(text) ==
    CASE FlashPlace(text) = 1 -> {1}
      [] FlashPlace(text) = 2 -> {3}
      [] FlashPlace(text) \in 3..13 -> {7}
      [] FlashPlace(text) \in 14..20 -> {9}
      [] FlashPlace(text) = 21 -> {11}
      [] text = "reboot-bootloader" -> {0, 2, 4, 10}
      [] text = "reboot-fastboot" -> {8}
      [] text = "snapshot-update:cancel" -> {5}
      [] text \in {"update-super:super", "update-super:super:wipe", "update-super:sp",
                   "update-super:sp:wipe"} -> {8}
      [] text = "erase:avb_custom_key" -> {11}
      [] text = "erase:userdata" -> {12}
      [] OTHER -> 0..12

\* the answer to command i, or the failure of its transfer, has come before
\* place j of the trace
AnsweredBefore(i, j) ==
    \E k \in (i + 1)..(j - 1) :
        \/ trace[k].t = "in" /\ trace[k].by = trace[i].id /\ ~IsInfo(trace[k].pkt)
        \/ trace[k].t = "failed" /\ trace[k].id = trace[i].id

\* a validate sequence has resolved a waitForConnect between places i and j
ReconnectedBetween(i, j) ==
    \E k \in (i + 1)..(j - 1) :
        trace[k].t = "outcome" /\ trace[k].r.k = "ok" /\ trace[k].settled # 0

ZipRun == trace # <<>> /\ trace[1].t = "call" /\ trace[1].op.op = "flashZip"

\* C19: the commands of a flashZip run are written stage by stage in the
\* fixed order (bootloader pack, reboot, radio pack, reboot, snapshot cancel,
\* requirements, boot-critical images, super partition, system images, return
\* to bootloader, custom AVB key, wipe), never going back; every command is
\* written in its own stage, the images of a list in the order of the list,
\* the erase of avb_custom_key before its flash; and a command of a later
\* stage is written only after every command of the earlier stages has been
\* answered (or has failed) and, if the earlier one is a reboot, after the
\* device has reconnected.
C19_StagesInOrder ==
    ZipRun =>
        /\ \A i \in Commands : StageAt(i) \in StagesOf(trace[i].text)
        /\ \A i, j \in Commands :
            i < j =>
                /\ StageAt(i) <= StageAt(j)
                /\ (FlashPlace(trace[i].text) # 0 /\ FlashPlace(trace[j].text) # 0)
                        => FlashPlace(trace[i].text) < FlashPlace(trace[j].text)
                /\ (trace[j].text = "erase:avb_custom_key")
                        => FlashPlace(trace[i].text) # Len(FlashOrder)
                /\ StageAt(i) < StageAt(j) => AnsweredBefore(i, j)
                /\ (trace[i].text \in RebootCommands /\ trace[j].text \notin RebootCommands)
                        => ReconnectedBetween(i, j)

\* a run through every stage has ended with the wipe of userdata
C19_Witness ==
    /\ ZipRun /\ stk = <<>> /\ prog = <<>> /\ ret.k = "ok"
    /\ {StageAt(i) : i \in Commands} = 0..12
    /\ \E i \in Commands : trace[i].text = "erase:userdata"


(***************************************************************************)
(* C20.  A requirement that is not met ends the flash.                     *)
(***************************************************************************)
\* the text of android-info.txt in the nested archive of a package, <<>> if
\* the package has no nested archive or the archive has no such entry
AndroidInfoOf(entries) ==
    IF FindImageZip(entries) = 0 \/ FindNamed(ImageEntries(entries), AndroidInfoTxt) = 0
    THEN <<>>
    ELSE ImageEntries(entries)[FindNamed(ImageEntries(entries), AndroidInfoTxt)].blob

\* a line without the carriage return of a CRLF line end
WithoutCR(line) ==
    IF line # <<>> /\ line[Len(line)] = "\r" THEN SubSeq(line, 1, Len(line) - 1) ELSE line

\* the requirements a text states, one for each of its lines (ended by LF or
\* CRLF) of the form require <key>=<values>
RequirementsOf(text) ==
    LET lines == SplitOn(text, "\n")
        stated == [k \in 1..Len(lines) |-> MatchRequire(WithoutCR(lines[k]))]
    IN  SelectSeq(stated, LAMBDA match : match.matched)

\* the value the device cfg has for a variable, as getVariable gives it
ValueOn(cfg, variable) ==
    LET var == DevVar(cfg, "getvar:" \o StrOf(variable))
    IN  IF var.known THEN Text(Trim(var.v)) ELSE Null

\* a requirement is met by the device: the partition exists and is one of
\* the two lists, or the variable (product for board) has one of the values
MetOn(cfg, match) ==
    IF match.variable = PartitionExists
    THEN /\ ValueOn(cfg, <<"has-slot:">> \o match.expectValue) \in {Text(Yes), Text(No)}
         /\ Recognized(match.expectValue)
    ELSE LET value == ValueOn(cfg, IF match.variable = Board THEN Product ELSE match.variable)
         IN  ~value.null /\ Includes(SplitOn(match.expectValue, "|"), value.s)

\* the requirements of the package of this run that the device does not meet
UnmetRequirements ==
    LET stated == RequirementsOf(AndroidInfoOf(trace[1].op.entries))
    IN  SelectSeq(stated, LAMBDA match : ~MetOn(dev.cfg, match))

\* the requirement that fails: the first one stated that the device does not
\* meet, asked of the device by a getvar of the variable it is checked against
Unmet == Head(UnmetRequirements)
FailingQuery ==
    "getvar:" \o StrOf(IF Unmet.variable = PartitionExists
                       THEN <<"has-slot:">> \o Unmet.expectValue
                       ELSE IF Unmet.variable = Board THEN Product ELSE Unmet.variable)
FailingChecks ==
    {i \in Commands : trace[i].stage = "requirements" /\ trace[i].text = FailingQuery}

\* an error that names the requirement: its variable (product for board) and
\* the values it expects
NamesRequirement(e, match) ==
    /\ e.name = "FastbootError"
    /\ StartsWith(e.message, <<"Requirement ">>
                                \o (IF match.variable = Board THEN Product ELSE match.variable)
                                \o <<"=">> \o match.expectValue \o <<" failed, ">>)

\* the device has answered as a bootloader that works: no transfer has failed,
\* no getVariable has timed out, no reconnect has failed, and no packet is an
\* odd one or a FAIL to a getvar of a variable the device has
FaultFree ==
    /\ timedOut = {}
    /\ \A k \in 1..Len(trace) :
            /\ trace[k].t # "failed"
            /\ trace[k].t = "outcome" => trace[k].r.k = "ok"
            /\ trace[k].t = "in" =>
                    /\ trace[k].pkt # OddPacket
                    /\ \A i \in Commands :
                            (trace[i].id = trace[k].for /\ trace[k].pkt = FailPacket)
                                => /\ trace[i].text \in GetvarTexts
                                   /\ ~DevVar(dev.cfg, trace[i].text).known

Settlements == {i \in 1..Len(trace) : trace[i].t = "settle"}

\* flashZip was given a package with a requirement the device does not meet
UnmetRun == ZipRun /\ UnmetRequirements # <<>>

\* the run rejects, in a run without faults with an error that names the
\* requirement; it writes no command after its failing check, and no command
\* other than a getvar in a stage after the requirements
AbortsOnUnmet ==
    /\ \A i \in Settlements :
            /\ trace[i].r.k = "err"
            /\ FaultFree => NamesRequirement(trace[i].r.v, Unmet)
    /\ \A j \in Commands :
            /\ trace[j].gv = 0 => StageAt(j) <= StageNamed("requirements")
            /\ \A i \in FailingChecks : j <= i

\* C20: when the android-info.txt of the package states a requirement that
\* the device does not meet, flashZip rejects, with an error that names the
\* first such requirement unless a fault of the device or the transport ended
\* the run before; after the getvar of the failing check no command is
\* written, and no flash, download, erase, resize, update-super or reboot is
\* written in any stage after the requirements.
C20_UnmetRequirementAborts == UnmetRun => AbortsOnUnmet

\* the same for the files whose lines end with LF alone
C20_UnmetRequirementAbortsLF ==
    (UnmetRun /\ Dots(SelectSeq(AndroidInfoOf(trace[1].op.entries), LAMBDA c : c # "\n")))
        => AbortsOnUnmet

\* a run of a package with an unmet requirement has ended
C20_Witness ==
    /\ UnmetRun /\ FaultFree /\ Settlements # {}
    /\ \A i \in Settlements : NamesRequirement(trace[i].r.v, Unmet)


(***************************************************************************)
(* C21.  Ordinary requirements.                                            *)
(***************************************************************************)
Checks == {i \in 1..Len(trace) : trace[i].t = "requirement"}
Ordinary(match) == match.variable # PartitionExists

\* v is one of the alternatives that the pipes of the text expect separate
IsAlternative(v, expect) ==
    /\ \A i \in 1..Len(v) : v[i] # "|"
    /\ \E a \in 1..(Len(expect) + 1) :
            LET b == a + Len(v) - 1
            IN  /\ b <= Len(expect)
                /\ SubSeq(expect, a, b) = v
                /\ a = 1 \/ expect[a - 1] = "|"
                /\ b = Len(expect) \/ expect[b + 1] = "|"

\* the device variable a requirement of variable K is about
AliasOf(K) == IF K = Board THEN Product ELSE K

\* the command written last before place i of the trace
QueryOf(i) ==
    LET before == {j \in Commands : j < i}
    IN  trace[CHOOSE j \in before : \A k \in before : k <= j].text

\* C21: a requirement of an ordinary variable K is checked by a getvar of K'
\* (product for board, K otherwise) and of nothing else; it passes exactly
\* when the value getVariable gave is one of the alternatives that the pipes
\* separate, so a null value fails it; in a run without faults that value is
\* the one the device holds for K'; and getvar:board is never written.
C21_OrdinaryRequirement ==
    ZipRun =>
        /\ \A i \in Checks :
                Ordinary(trace[i].match) =>
                    /\ QueryOf(i) = "getvar:" \o StrOf(AliasOf(trace[i].match.variable))
                    /\ trace[i].r.k = "ok" <=>
                            /\ ~trace[i].value.null
                            /\ IsAlternative(trace[i].value.s, trace[i].match.expectValue)
                    /\ FaultFree =>
                            trace[i].value = ValueOn(dev.cfg, AliasOf(trace[i].match.variable))
        /\ \A j \in Commands : trace[j].text # "getvar:board"

\* a requirement of board with two alternatives has passed on the product of
\* the device, and a requirement of a variable the device lacks has failed
C21_Witness ==
    /\ ZipRun
    /\ \E i, j \in Checks :
            /\ trace[i].match.variable = Board /\ trace[i].r.k = "ok"
            /\ Len(SplitOn(trace[i].match.expectValue, "|")) = 2
            /\ Ordinary(trace[j].match) /\ trace[j].value.null /\ trace[j].r.k = "err"


(***************************************************************************)
(* C22.  Requirements of partition-exists.                                 *)
(***************************************************************************)
\* the names of the two image lists, as the specification gives them
RecognizedNames ==
    {<<"b", "o", "o", "t">>, <<"d", "t">>, <<"d", "t", "b", "o">>,
     <<"i", "n", "i", "t", "_", "b", "o", "o", "t">>, <<"p", "v", "m", "f", "w">>,
     <<"r", "e", "c", "o", "v", "e", "r", "y">>,
     <<"v", "b", "m", "e", "t", "a", "_", "s", "y", "s", "t", "e", "m">>,
     <<"v", "b", "m", "e", "t", "a", "_", "v", "e", "n", "d", "o", "r">>,
     <<"v", "b", "m", "e", "t", "a">>, <<"v", "e", "n", "d", "o", "r", "_", "b", "o", "o", "t">>,
     <<"v", "e", "n", "d", "o", "r", "_", "k", "e", "r", "n", "e", "l", "_", "b", "o", "o", "t">>,
     <<"o", "d", "m">>, <<"o", "d", "m", "_", "d", "l", "k", "m">>,
     <<"p", "r", "o", "d", "u", "c", "t">>, <<"s", "y", "s", "t", "e", "m", "_", "e", "x", "t">>,
     <<"s", "y", "s", "t", "e", "m">>, <<"v", "e", "n", "d", "o", "r", "_", "d", "l", "k", "m">>,
     <<"v", "e", "n", "d", "o", "r">>}

\* the check at place i of the trace has failed and ended the flash: no
\* command follows it and flashZip rejects with its error
EndsTheFlash(i) ==
    /\ trace[i].r.k = "err"
    /\ \A j \in Commands : j < i
    /\ \A j \in Settlements : trace[j].r = trace[i].r

\* C22: a requirement partition-exists=P is checked by getvar:has-slot:P; it
\* passes exactly when the value is yes or no and P is a name of the
\* boot-critical or system image list; in every other case the check throws,
\* no command is written afterwards and flashZip rejects with that error.
C22_PartitionExists ==
    ZipRun =>
        \A i \in Checks :
            ~Ordinary(trace[i].match) =>
                /\ QueryOf(i) = "getvar:has-slot:" \o StrOf(trace[i].match.expectValue)
                /\ trace[i].r.k = "ok" <=>
                        /\ trace[i].value \in {Text(Yes), Text(No)}
                        /\ trace[i].match.expectValue \in RecognizedNames
                /\ trace[i].r.k # "ok" => EndsTheFlash(i)
                /\ FaultFree =>
                        trace[i].value = ValueOn(dev.cfg, <<"has-slot:">> \o trace[i].match.expectValue)

\* a partition with slots has passed and the run has gone on to flash
C22_Witness ==
    /\ ZipRun
    /\ \E i \in Checks :
            /\ ~Ordinary(trace[i].match) /\ trace[i].value = Text(Yes) /\ trace[i].r.k = "ok"
            /\ \E j \in Commands : j > i /\ trace[j].text = "flash:boot"


(***************************************************************************)
(* C23.  The entry an image is flashed from.                               *)
(***************************************************************************)
\* filename is the image of the name N itself: N.img or N-<suffix>.img
OwnImage(filename, N) ==
    \/ filename = N \o DotImg
    \/ /\ StartsWith(filename, N \o <<"-">>)
       /\ EndsWith(filename, DotImg)
       /\ Len(filename) > Len(N) + 1 + Len(DotImg)

\* the nested archive of the package of this run holds an image of N itself
HoldsOwnImage(N) ==
    /\ FindImageZip(trace[1].op.entries) # 0
    /\ \E k \in 1..Len(ImageEntries(trace[1].op.entries)) :
            OwnImage(ImageEntries(trace[1].op.entries)[k].filename, N)

\* the commands about the partition N, with and without a slot
CommandsAbout(N) ==
    {"getvar:has-slot:" \o StrOf(N), "getvar:is-logical:" \o StrOf(N), "flash:" \o StrOf(N),
     "flash:" \o StrOf(N) \o "_a", "flash:" \o StrOf(N) \o "_b"}

ImageStages == {StageNamed("bootCritical"), StageNamed("system")}

\* the calls of flashEntryBlob under way
EntryFlashes == {i \in 1..Len(stk) : stk[i].fn = "flashEntryBlob"}

\* a partition of the lists is flashed from its own image alone, and without
\* such an image in the archive no command about it is written in the stages
\* of the two lists
FlashesOwnImages ==
    /\ \A i \in EntryFlashes :
            stk[i].a.partition \in RecognizedNames =>
                OwnImage(stk[i].a.entry.filename, stk[i].a.partition)
    /\ \A N \in RecognizedNames :
            \A j \in Commands :
                (StageAt(j) \in ImageStages /\ trace[j].text \in CommandsAbout(N))
                    => HoldsOwnImage(N)

\* C23: in a flashZip run every partition N of the boot-critical and system
\* lists is flashed only from an entry named N.img or N-<suffix>.img, and
\* when the archive has no such entry no command about partition N is
\* written, whatever other images the archive holds and in whatever order.
C23_FlashesOwnImages == ZipRun => FlashesOwnImages

\* no entry of the nested archive has a name that ends like the image of
\* another name of the lists
Unambiguous ==
    FindImageZip(trace[1].op.entries) # 0 =>
        \A k \in 1..Len(ImageEntries(trace[1].op.entries)) :
            \A N \in RecognizedNames :
                MatchesImage(ImageEntries(trace[1].op.entries)[k].filename, N)
                    => OwnImage(ImageEntries(trace[1].op.entries)[k].filename, N)

\* the same for the archives without such names; a run that has ended well
\* without faults has then written a flash command for every image held
C23_FlashesOwnImagesUnambiguous ==
    (ZipRun /\ Unambiguous) =>
        /\ FlashesOwnImages
        /\ \A i \in Settlements :
                (trace[i].r.k = "ok" /\ FindImageZip(trace[1].op.entries) # 0) =>
                    \A N \in RecognizedNames :
                        HoldsOwnImage(N) =>
                            \E j \in Commands :
                                /\ StageAt(j) \in ImageStages
                                /\ trace[j].text \in CommandsAbout(N) \ {"getvar:has-slot:" \o StrOf(N), "getvar:is-logical:" \o StrOf(N)}


(***************************************************************************)
(* C24.  A command that fails ends the flash.                              *)
(***************************************************************************)
\* the commands of the run that are no getvar queries
Orders == {i \in Commands : trace[i].gv = 0}

\* the packets that end the response to command i and report its failure
Refusals(i) ==
    {k \in 1..Len(trace) :
        /\ trace[k].t = "in" /\ trace[k].by = trace[i].id /\ k > i
        /\ Len(trace[k].pkt) >= 4
        /\ SubSeq(trace[k].pkt, 1, 4) \notin {OKAY, DATA, INFO}}
\* the transfers of command i that the transport has failed
Breakdowns(i) ==
    {k \in 1..Len(trace) : trace[k].t = "failed" /\ trace[k].id = trace[i].id /\ k > i}

\* the error runCommand throws for the failure at place k of the trace
ErrorAtPlace(k) ==
    IF trace[k].t = "failed" THEN NetworkError
    ELSE FastbootError(SubSeq(trace[k].pkt, 1, 4), SubSeq(trace[k].pkt, 5, Len(trace[k].pkt)))

\* the failure of command i ends the run: no command is written after it and
\* flashZip rejects with the error of the failure
StopsAt(i) ==
    \A k \in Refusals(i) \cup Breakdowns(i) :
        /\ \A j \in Commands : j < k
        /\ \A j \in Settlements : trace[j].r = Thrown(ErrorAtPlace(k))

\* C24: when a command of a flashZip run that is no getvar query is refused
\* by the device or its transfer fails, no command is written afterwards
\* and flashZip rejects with the error of that failure.
C24_FailureEndsFlash == ZipRun => \A i \in Orders : StopsAt(i)

\* the same for the commands that tryReboot does not write
C24_FailureEndsFlashButTryReboot ==
    ZipRun =>
        \A i \in Orders :
            (trace[i].stage \notin {"bootloaderReboot", "radioReboot"}) => StopsAt(i)

\* a run has been rejected with the error of a refused flash command
C24_Witness ==
    /\ ZipRun /\ Settlements # {}
    /\ \E i \in Orders : trace[i].text = "flash:boot" /\ Refusals(i) # {}


(***************************************************************************)
(* C25.  The fractions runWithTimedProgress reports.                       *)
(***************************************************************************)
TimedRun == trace # <<>> /\ trace[1].t = "call" /\ trace[1].op.op = "runWithTimedProgress"
Reports == {i \in 1..Len(trace) : trace[i].t = "onProgress"}
\* the reports of the ticking loop: elapsed time over the duration
TickReports == {i \in Reports : trace[i].den = trace[1].op.duration}
\* the reports of 1.0
FinalReports == {i \in Reports : trace[i].num = 1 /\ trace[i].den = 1}

\* the fraction reported at place i is at most the one reported at place j
AtMost(i, j) == trace[i].num * trace[j].den <= trace[j].num * trace[i].den

\* the run has resolved after a report of 1.0 that is the last report
FinalIsLast ==
    \A s \in Settlements :
        trace[s].r.k = "ok" =>
            \E k \in FinalReports : k < s /\ \A j \in Reports : j <= k

\* C25: every fraction the ticking loop reports is at least 0 and below 1,
\* the fractions reported are non-decreasing in the order they are
\* reported, and a run that resolves has reported 1.0 as its last progress.
C25_TickedFractions ==
    TimedRun =>
        /\ \A i \in TickReports : 0 <= trace[i].num /\ trace[i].num < trace[i].den
        /\ \A i, j \in Reports : i < j => AtMost(i, j)
        /\ FinalIsLast

\* what holds of the reports: none is below 0, the loop's own reports are
\* non-decreasing, and 1.0 is the last report of a run that resolves
C25_FinalReportIsLast ==
    TimedRun =>
        /\ \A i \in TickReports : 0 <= trace[i].num
        /\ \A i, j \in TickReports : i < j => AtMost(i, j)
        /\ FinalIsLast

(***************************************************************************)
(* C26: the loop of _readResponse.                                         *)
(***************************************************************************)
\* the commands that have been written
Written == {trace[i].id : i \in {j \in Indices : IsCmd(j)}}

\* the transferIn calls of command id that are outstanding
PendingReads(id) == {i \in 1..Len(rd) : rd[i].id = id}

\* the status the loop of _readResponse reads from a packet
StatusOf(pkt) == Substring(Utf8Decode(pkt), 0, 4)
OnlyInfo(pkts) == \A i \in 1..Len(pkts) : StatusOf(pkts[i]) = INFO
ReadFailed(id) == \E i \in Indices : IsFailed(i) /\ trace[i].id = id

\* the frame of the _readResponse of command id is the one the client is in,
\* at its await of transferIn
AwaitsTransferIn(id) ==
    /\ stk # <<>>
    /\ Top.fn = "_readResponse" /\ Top.pc = "transferIn" /\ Top.a.id = id

\* C26: the response to a command is read one packet at a time; while the
\* packets read for it are all INFO, and no transfer has failed, one transferIn
\* is outstanding and the runCommand that awaits it has not returned; the
\* first packet that is not INFO is the last packet read for the command, and
\* no transferIn for it is outstanding afterwards; a runCommand that has
\* settled after its command was written has read a packet that is not INFO
\* or had a transfer rejected.
C26_ReadsWhileInfo ==
    /\ \A id \in Written :
        LET pkts == Taken(id)
        IN  /\ Cardinality(PendingReads(id)) <= 1
            /\ \A i \in 1..(Len(pkts) - 1) : StatusOf(pkts[i]) = INFO
            /\ pkts # <<>> /\ ~OnlyInfo(pkts) => PendingReads(id) = {}
            /\ pkts # <<>> /\ OnlyInfo(pkts) /\ ~ReadFailed(id) =>
                    Cardinality(PendingReads(id)) = 1
            /\ \A i \in PendingReads(id) : rd[i].main => AwaitsTransferIn(id)
    /\ \A c \in Calls("runCommand") :
            Settled(c) /\ CmdIdOf(c) # 0 =>
                \/ TerminalWithin(c, CmdIdOf(c)) # {} /\ ~OnlyInfo(Taken(CmdIdOf(c)))
                \/ FailedWithin(c, CmdIdOf(c))

\* a runCommand has returned after its read took an INFO packet and then OKAY
C26_Witness ==
    /\ \E c \in Calls("runCommand") :
            /\ Settled(c) /\ ResultOf(c).k = "ok"
            /\ Len(Taken(CmdIdOf(c))) = 2
            /\ StatusOf(Taken(CmdIdOf(c))[1]) = INFO
            /\ StatusOf(Taken(CmdIdOf(c))[2]) = OKAY

(***************************************************************************)
(* C27: _sendRawPayload.                                                   *)
(***************************************************************************)
IsProgress(i) == trace[i].t = "progress"

\* the transfers made during the call at c before event i
ChunksBefore(c, i) == Cardinality({j \in During(c) : j < i /\ IsData(j)})

\* the fraction of report p is at most that of report q
FractionLe(p, q) ==
    IF p.den = q.den THEN p.num <= q.num ELSE p.num * q.den <= q.num * p.den

\* the caller has got the outcome of the call
PayloadDone == prog = <<>> /\ stk = <<>> /\ ret.k = "none"

\* C27: _sendRawPayload writes the buffer in order as consecutive transfers
\* of exactly 16384 bytes, the last one possibly shorter, which together are
\* the whole buffer when it returns; it comes to an end for every buffer
\* length; onProgress is called right before the transfers 0, 10, 20, ... with
\* the fraction of the bytes already sent, the fractions never decrease and
\* lie within [0, 1], and exactly one onProgress(1.0) is made, as the last
\* thing, after the last transfer, also for an empty buffer and for fewer
\* than 10 transfers.
C27_SendRawPayload ==
    /\ [](\A c \in Calls("_sendRawPayload") :
            LET byteLength == trace[c].op.buffer
                ones == {i \in During(c) : IsProgress(i) /\ trace[i].num = trace[i].den}
            IN  /\ \A i \in During(c) :
                    IsData(i) =>
                        LET k == ChunksBefore(c, i)
                        IN  /\ trace[i].at = k * BULK_TRANSFER_SIZE
                            /\ trace[i].n > 0
                            /\ trace[i].at + trace[i].n <= byteLength
                            /\ trace[i].n = BULK_TRANSFER_SIZE
                                    \/ trace[i].at + trace[i].n = byteLength
                            /\ IsProgress(i - 1) = (k % 10 = 0)
                /\ \A i \in During(c) :
                    IsProgress(i) =>
                        /\ trace[i].den > 0
                        /\ trace[i].num >= 0 /\ trace[i].num <= trace[i].den
                        /\ \A j \in During(c) :
                                IsProgress(j) /\ i < j => FractionLe(trace[i], trace[j])
                        /\ \/ /\ i < EndOf(c) /\ IsData(i + 1)
                              /\ trace[i] = Progress(trace[i + 1].at, byteLength)
                           \/ /\ trace[i] = Progress(1, 1)
                              /\ \A j \in During(c) : IsData(j) \/ IsProgress(j) => j <= i
                              /\ ChunksBefore(c, i) = 0 => byteLength = 0
                              /\ ChunksBefore(c, i) > 0 =>
                                    trace[i - 1].at + trace[i - 1].n = byteLength
                /\ Completed(c) =>
                        /\ Cardinality(ones) = 1
                        /\ \A i \in ones : i + 1 = SettleOf(c))
    /\ <>PayloadDone

\* a buffer of 21 transfers, the last of one byte, has been sent: onProgress
\* was called before the transfers 0, 10 and 20 and once more at the end
C27_Witness ==
    \E c \in Calls("_sendRawPayload") :
        /\ Completed(c)
        /\ ChunksBefore(c, SettleOf(c)) = 21
        /\ trace[SettleOf(c) - 2].n = 1
        /\ Cardinality({i \in During(c) : IsProgress(i)}) = 4

(***************************************************************************)
(* C28: the Skip chunks splitBlob adds.                                    *)
(***************************************************************************)
\* the chunks of an image, read from its chunk headers in order
Decoded(image) == [k \in 1..Len(image.chunks) |-> ReadChunk(image.chunks[k])]
\* the blocks the first n of the chunks stand for
BlocksUpTo(chunks, n) == SumOf([i \in 1..Len(chunks) |-> chunks[i].blocks], n)

\* split j of the m splits of the call at c, and the Skip chunks splitBlob
\* has put before and after the chunks of the input it carries
SplitAt(c, j) == Decoded(trace[c + j].split.data)
Lead(j) == IF j > 1 THEN 1 ELSE 0
Trail(j, m) == IF j < m THEN 1 ELSE 0
Carried(c, j, m) == Len(SplitAt(c, j)) - Lead(j) - Trail(j, m)
\* the chunks of the input that the splits before split j carry
CarriedBefore(c, j, m) == SumOf([k \in 1..m |-> Carried(c, k, m)], j - 1)

\* splitBlob has come to its end on a well-formed image that had to be split
SplitRun(c) ==
    /\ Settled(c) /\ ResultOf(c).k = "ok"
    /\ WellFormed(trace[c].op.blob) /\ ForcesSplit(trace[c].op)

\* C28: when splitBlob has split a well-formed image, every split after the
\* first begins with a Skip chunk of as many blocks as the input chunks
\* carried by the earlier splits stand for, every split but the last ends with
\* a Skip chunk of the blocks that remain up to the header's total, and
\* between them the splits carry the chunks of the input in order, each at
\* the block offset it has in the input.
C28_SkipChunks ==
    \A c \in Calls("splitBlob") :
        SplitRun(c) =>
            LET m     == Cardinality(YieldsOf(c))
                input == Decoded(trace[c].op.blob)
                total == HeaderOf(trace[c].op.blob).hdr.blocks
            IN  /\ YieldsOf(c) = (c + 1)..(c + m)
                /\ \A j \in 1..m :
                    LET cs    == SplitAt(c, j)
                        first == CarriedBefore(c, j, m)
                    IN  /\ Carried(c, j, m) >= 0
                        /\ j > 1 => cs[1] = SkipChunk(BlocksUpTo(input, first))
                        /\ j < m => cs[Len(cs)] = SkipChunk(total - BlocksUpTo(cs, Len(cs) - 1))
                        /\ first + Carried(c, j, m) <= Len(input)
                        /\ \A p \in 1..Carried(c, j, m) :
                            /\ cs[Lead(j) + p] = input[first + p]
                            /\ BlocksUpTo(cs, Lead(j) + p - 1) = BlocksUpTo(input, first + p - 1)

\* an image of three chunks was split in three: the second split skips the
\* blocks of the first chunk and ends with a Skip chunk, and the third skips
\* the blocks of the first two chunks
C28_Witness ==
    \E c \in Calls("splitBlob") :
        /\ SplitRun(c)
        /\ Cardinality(YieldsOf(c)) = 3
        /\ Len(SplitAt(c, 2)) = 3
        /\ SplitAt(c, 2)[1] = SkipChunk(1)
        /\ SplitAt(c, 2)[2].type = ChunkRaw
        /\ SplitAt(c, 2)[3].type = ChunkSkip /\ SplitAt(c, 2)[3].blocks > 0
        /\ SplitAt(c, 3)[1] = SkipChunk(3)

(***************************************************************************)
(* C29: chunk types.                                                       *)
(***************************************************************************)
ChunkTypes == {ChunkRaw, ChunkFill, ChunkSkip, ChunkCrc32}
TypesOf(image) == {image.chunks[k].type : k \in 1..Len(image.chunks)}
HasUnknownType(image) == \E type \in TypesOf(image) : type \notin ChunkTypes

\* C29: when an image that has to be split holds a chunk whose type code is
\* none of 0xCAC1, 0xCAC2, 0xCAC3 and 0xCAC4, splitBlob throws ImageError and
\* yields no split that holds a chunk of an unknown type; the chunks of every
\* split have a type of the input or are Skip chunks.
C29_UnknownChunkType ==
    \A c \in Calls("splitBlob") :
        LET op == trace[c].op
        IN  HeaderOf(op.blob).k = "ok" /\ ForcesSplit(op) =>
                /\ \A i \in YieldsOf(c) :
                        /\ ~HasUnknownType(trace[i].split.data)
                        /\ TypesOf(trace[i].split.data) \subseteq TypesOf(op.blob) \cup {ChunkSkip}
                /\ Settled(c) /\ HasUnknownType(op.blob) => ResultOf(c) = Thrown(ImageError)

\* the part of C29 that holds: the chunks of every split have a type of the
\* input or are Skip chunks.
C29_TypesComeFromInput ==
    \A c \in Calls("splitBlob") :
        LET op == trace[c].op
        IN  HeaderOf(op.blob).k = "ok" /\ ForcesSplit(op) =>
                \A i \in YieldsOf(c) :
                    TypesOf(trace[i].split.data) \subseteq TypesOf(op.blob) \cup {ChunkSkip}

\* an image with a chunk of an unknown type has been split, and splitBlob has
\* returned
C29_Witness ==
    \E c \in Calls("splitBlob") :
        /\ ForcesSplit(trace[c].op) /\ HasUnknownType(trace[c].op.blob)
        /\ Settled(c) /\ ResultOf(c).k = "ok"
        /\ \E i \in YieldsOf(c) : HasUnknownType(trace[i].split.data)

(***************************************************************************)
(* C30: fromRaw.                                                           *)
(***************************************************************************)
\* the bytes of data the chunks of an image hold
PayloadBytes(image) ==
    SumOf([k \in 1..Len(image.chunks) |-> image.chunks[k].data], Len(image.chunks))

\* what the claim says of the image fromRaw has built from a blob of size
\* bytes
BuiltFromRaw(image, size) ==
    /\ HeaderOf(image).k = "ok"
    /\ HeaderOf(image).hdr.blockSize = 4096
    /\ HeaderOf(image).hdr.chunks = Len(image.chunks)
    /\ HeaderOf(image).hdr.blocks = BlocksOf(image)
    /\ PayloadBytes(image) = size
    /\ \A k \in 1..Len(image.chunks) :
            LET chunk == ReadChunk(image.chunks[k])
            IN  /\ chunk.type = ChunkRaw
                /\ chunk.data = image.chunks[k].data
                /\ chunk.data <= RAW_CHUNK_SIZE
                /\ k < Len(image.chunks) => chunk.data = RAW_CHUNK_SIZE
                /\ chunk.data = chunk.blocks * 4096

\* C30: for a raw blob of any size, the image fromRaw builds has blockSize
\* 4096 and only Raw chunks, of at most 64 MiB of data each, which together
\* are the blob in order; its header counts its chunks, the blocks of its
\* chunks add up to the blocks of the header, and the data of every chunk
\* are as many bytes as its blocks times 4096.
C30_FromRaw ==
    \A c \in Calls("fromRaw") :
        Settled(c) =>
            /\ ResultOf(c).k = "ok"
            /\ BuiltFromRaw(ResultOf(c).v, trace[c].op.blob.size)

\* the same for the sizes that are a multiple of 4096, which holds
C30_FromRawWholeBlocks ==
    \A c \in Calls("fromRaw") :
        Settled(c) /\ trace[c].op.blob.size % 4096 = 0 =>
            /\ ResultOf(c).k = "ok"
            /\ BuiltFromRaw(ResultOf(c).v, trace[c].op.blob.size)

\* fromRaw has built an image of three chunks, the last one of 5000 bytes
C30_Witness ==
    \E c \in Calls("fromRaw") :
        /\ Settled(c) /\ ResultOf(c).k = "ok"
        /\ Len(ResultOf(c).v.chunks) = 3
        /\ ResultOf(c).v.chunks[3].data = 5000

(***************************************************************************)
(* C31.  The calls of a validate sequence.                                 *)
(***************************************************************************)
UsbCalls == <<"open", "reset", "selectConfiguration", "claimInterface">>
CallNumber(pc) == CHOOSE k \in 1..Len(UsbCalls) : UsbCalls[k] = pc

\* the validate sequences under way on the USB side c, and the call that
\* the sequence id awaits
SeqIds(c) == {c.seqs[i].id : i \in 1..Len(c.seqs)}
SeqOf(c, id) == c.seqs[CHOOSE i \in 1..Len(c.seqs) : c.seqs[i].id = id]
PendingCall(c, id) == SeqOf(c, id).pc

\* a USB call has been rejected in this step
UsbCallRejected == budget'.faults < budget.faults
LastEvent(tr) == tr[Len(tr)]

\* the sequence id has ended in this step after the call it awaited: with
\* the error of a rejected open, selectConfiguration or claimInterface, or
\* after claimInterface has resolved; connect(), if it awaits the sequence,
\* gets the outcome
EndsSequence(id) ==
    LET s == SeqOf(conn, id)
        o == LastEvent(trace')
    IN  /\ trace' = Append(trace, o)
        /\ o.t = "outcome" /\ o.seq = id /\ o.at = s.pc
        /\ IF UsbCallRejected
           THEN s.pc # "reset" /\ o.r = Thrown(NetworkError)
           ELSE s.pc = "claimInterface" /\ o.r = Ok(Undefined)
        /\ (s.from = "connect" /\ At("connect", "validate") /\ Top.a.seq = id) =>
                stk' = Rest /\ ret' = o.r

\* C31: a validate sequence calls open, reset, selectConfiguration and
\* claimInterface in this order, one after the other has settled; a reset
\* that is rejected is followed by selectConfiguration all the same; a
\* rejected open, selectConfiguration or claimInterface ends the sequence
\* there with that error, which is thrown to the caller, and no later call of
\* the sequence is made.
C31_ValidateSequence ==
    [][/\ \A id \in SeqIds(conn') \ SeqIds(conn) : PendingCall(conn', id) = "open"
       /\ \A id \in SeqIds(conn) \cap SeqIds(conn') :
            \/ PendingCall(conn', id) = PendingCall(conn, id)
            \/ /\ CallNumber(PendingCall(conn', id)) = CallNumber(PendingCall(conn, id)) + 1
               /\ UsbCallRejected => PendingCall(conn, id) = "reset"
       /\ \A id \in SeqIds(conn) \ SeqIds(conn') : EndsSequence(id)
       /\ UsbCallRejected =>
            \E id \in SeqIds(conn) :
                \/ id \notin SeqIds(conn')
                \/ /\ PendingCall(conn, id) = "reset"
                   /\ PendingCall(conn', id) = "selectConfiguration"
      ]_vars

\* the reset of the only validate sequence was rejected, and the sequence has
\* gone on through selectConfiguration and claimInterface to its end
C31_Witness ==
    /\ budget.faults < MaxFaults
    /\ conn.seqs = <<>> /\ conn.nextSeq = 2
    /\ Ended # {}
    /\ \A i \in Ended : trace[i].at = "claimInterface" /\ trace[i].r = Ok(Undefined)

(***************************************************************************)
(* C32.  A device that fails the validation.                               *)
(***************************************************************************)
\* the calls of _validateAndConnectDevice that have thrown before their try
\* block
Invalid == {i \in Outcomes : trace[i].at = "validate"}
IsUsbError(r) == r.k = "err" /\ r.v.name = "UsbError"
\* connect() has settled with the outcome at i, or has yet to settle
ReachesConnect(i) ==
    \A c \in Calls("connect") :
        (c < i /\ i <= EndOf(c) /\ Settled(c)) => ResultOf(c) = trace[i].r

\* C32: a device whose interface has not exactly one bulk IN and one bulk OUT
\* endpoint is refused with a UsbError before open() is called; connect()
\* rejects with that error, and when the connect listener gets it while a
\* waitForConnect is pending, the waiter is rejected with it or the listener
\* throws it again: it is never dropped with the waiter left pending.
C32_ValidationErrorReachesCaller ==
    \A i \in Invalid :
        /\ IsUsbError(trace[i].r)
        /\ trace[i].seq \notin SeqIds(conn)
        /\ \A k \in Ended : trace[k].seq # trace[i].seq
        /\ trace[i].from = "connect" => ReachesConnect(i)
        /\ trace[i].from = "event" =>
                \A j \in Waiters :
                    PendingAt(j, i) => trace[i].settled = trace[j].w \/ trace[i].unhandled

\* the part of C32 about connect(), and about a connect event with no
\* waitForConnect pending
C32_ValidationErrorNoWaiter ==
    \A i \in Invalid :
        /\ IsUsbError(trace[i].r)
        /\ trace[i].seq \notin SeqIds(conn)
        /\ \A k \in Ended : trace[k].seq # trace[i].seq
        /\ trace[i].from = "connect" => ReachesConnect(i)
        /\ (trace[i].from = "event" /\ ~\E j \in Waiters : PendingAt(j, i)) =>
                trace[i].unhandled

\* a device that is no fastboot device has joined the bus while a
\* waitForConnect was pending, which still is
C32_Witness ==
    \E i \in Invalid : \E j \in Waiters :
        /\ trace[i].from = "event" /\ PendingAt(j, i)
        /\ At("waitForConnect", "promise") /\ Top.a.w = trace[j].w

(***************************************************************************)
(* C33.  No require line is passed over.                                   *)
(***************************************************************************)
\* the requirements checkRequirements has evaluated, in the order it has
RECURSIVE EvaluatedFrom(_)
EvaluatedFrom(i) ==
    IF i > Len(trace) THEN <<>>
    ELSE (IF trace[i].t = "requirement" THEN <<trace[i].match>> ELSE <<>>)
            \o EvaluatedFrom(i + 1)
Evaluated == EvaluatedFrom(1)

\* the requirements the android-info.txt of the package states
Stated == RequirementsOf(AndroidInfoOf(trace[1].op.entries))

\* checkRequirements has returned: flashZip is beyond the requirements
RequirementsPassed ==
    \/ \E i \in Commands : StageAt(i) > StageNamed("requirements")
    \/ \E i \in Settlements : trace[i].r.k = "ok"

\* the lines of the file are evaluated in file order, all of them once
\* checkRequirements has returned, and no expected value holds a carriage
\* return
EvaluatesStated ==
    /\ Len(Evaluated) <= Len(Stated)
    /\ \A k \in 1..Len(Evaluated) :
            /\ Evaluated[k] = Stated[k]
            /\ \A i \in 1..Len(Evaluated[k].expectValue) : Evaluated[k].expectValue[i] # "\r"
    /\ RequirementsPassed => Len(Evaluated) = Len(Stated)

\* C33: checkRequirements evaluates every line of android-info.txt of the
\* form require <key>=<values>, in file order, for LF and for CRLF line ends
\* and any number of lines: no such line is passed over, and the carriage
\* return of a line end is never part of the expected value.
C33_EveryRequireLine == ZipRun => EvaluatesStated

\* the same for the files whose lines end with LF alone
C33_EveryRequireLineLF ==
    (ZipRun /\ Dots(SelectSeq(AndroidInfoOf(trace[1].op.entries), LAMBDA c : c # "\n")))
        => EvaluatesStated

\* the flash of a package whose android-info.txt has two require lines with
\* CRLF line ends has gone beyond the requirements after one check
C33_Witness ==
    /\ ZipRun /\ RequirementsPassed
    /\ Len(Stated) = 2 /\ Len(Evaluated) = 1

(***************************************************************************)
(* C34.  The super partition.                                              *)
(***************************************************************************)
\* the nested archive of the package has super_empty.img
HasSuperEmpty ==
    LET entries == trace[1].op.entries
    IN  /\ FindImageZip(entries) # 0
        /\ FindNamed(ImageEntries(entries), SuperEmptyImg) # 0

SuperStage == StageNamed("superName")
SuperCommands == {i \in Commands : StageAt(i) = SuperStage}
SuperNameQuery == "getvar:super-partition-name"
\* the name the device gives for its super partition, `super` if it has none
SuperNameOf(cfg) ==
    IF ValueOn(cfg, <<"super-partition-name">>).null \/ ValueOn(cfg, <<"super-partition-name">>).s = <<>>
    THEN Super ELSE ValueOn(cfg, <<"super-partition-name">>).s
UpdateSuper(wipe) ==
    "update-super:" \o StrOf(SuperNameOf(dev.cfg)) \o (IF wipe THEN ":wipe" ELSE "")
Uploads(i) == {k \in 1..Len(trace) : k < i /\ IsData(k) /\ trace[k].n > 0}

\* C34: with super_empty.img in the nested archive flashZip writes
\* reboot-fastboot, waits for the reconnect, queries super-partition-name,
\* uploads the template and writes update-super:<name>, <name> being the
\* device's super-partition-name, or super if it has none, with :wipe exactly
\* when wipe was asked for; all of it after the last boot-critical flash and
\* before the first flash of a system image.  Without the entry no
\* reboot-fastboot and no update-super is written, nor any command of this
\* stage.
C34_SuperPartition ==
    ZipRun =>
        IF ~HasSuperEmpty
        THEN /\ SuperCommands = {}
             /\ \A i \in Commands :
                    trace[i].text \notin {"reboot-fastboot", UpdateSuper(TRUE), UpdateSuper(FALSE)}
        ELSE /\ \A i \in SuperCommands : \A j \in Commands :
                    /\ (StageAt(j) > 0 /\ StageAt(j) < SuperStage) => j < i
                    /\ StageAt(j) > SuperStage => i < j
             /\ \A i \in Commands : trace[i].text = "reboot-fastboot" => i \in SuperCommands
             /\ \A i \in SuperCommands :
                    LET text == trace[i].text
                        before == {trace[j].text : j \in {k \in SuperCommands : k < i}}
                    IN  CASE text = "reboot-fastboot" -> before = {}
                          [] text = SuperNameQuery ->
                                /\ before = {"reboot-fastboot"}
                                /\ \E j \in SuperCommands :
                                        /\ trace[j].text = "reboot-fastboot"
                                        /\ ReconnectedBetween(j, i)
                          [] text = "download:00000028" ->
                                before = {"reboot-fastboot", SuperNameQuery}
                          [] text = UpdateSuper(trace[1].op.wipe) ->
                                /\ before = {"reboot-fastboot", SuperNameQuery,
                                             "download:00000028"}
                                /\ \E k \in Uploads(i) :
                                        \A j \in SuperCommands : j < i => j < k
                          [] OTHER -> FALSE
             /\ (\E i \in Settlements : trace[i].r.k = "ok") =>
                    \E i \in SuperCommands : trace[i].text = UpdateSuper(trace[1].op.wipe)

\* a flash with wipe of a package with super_empty.img has ended on a device
\* whose super partition is named sp
C34_Witness ==
    /\ ZipRun /\ HasSuperEmpty /\ trace[1].op.wipe
    /\ \E i \in Settlements : trace[i].r.k = "ok"
    /\ \E i \in SuperCommands : trace[i].text = "update-super:sp:wipe"


(***************************************************************************)
(* C35: what runWithTimedProgress has waited for when it settles.          *)
(***************************************************************************)
\* the work of the run had resolved before place s of the trace
WorkResolvedBefore(s) ==
    \/ trace[1].op.work = "ok"
    \/ \E w \in 1..(s - 1) : trace[w].t = "work" /\ trace[w].r = "ok"

\* the ticking loop reports nothing after place s
LoopSilentAfter(s) == \A i \in TickReports : i < s

\* C35: runWithTimedProgress resolves only after the real operation has
\* resolved, and after it has settled, by resolving or by rejecting with the
\* operation's error, the ticking loop emits no further progress event.
C35_SettlesAfterBoth ==
    TimedRun =>
        \A s \in Settlements :
            /\ trace[s].r.k = "ok" => WorkResolvedBefore(s)
            /\ LoopSilentAfter(s)

\* what holds: a run that resolves has seen the operation resolve and its
\* loop end; a run that rejects leaves the loop running
C35_ResolvesAfterBoth ==
    TimedRun =>
        \A s \in Settlements :
            trace[s].r.k = "ok" => WorkResolvedBefore(s) /\ LoopSilentAfter(s)

\* the run has rejected with the operation's error and the loop has reported
\* again after that
C35_Witness ==
    /\ TimedRun
    /\ \E s \in Settlements :
        /\ trace[s].r.k # "ok"
        /\ \E i \in TickReports : i > s


(***************************************************************************)
(* C36: the report of 0.0 and the first write of an action.                *)
(***************************************************************************)
\* the stages whose commands are the work of runWithTimedProgress
TimedStages == {"bootloaderReboot", "radioReboot", "fastbootd", "toBootloaderAgain", "wipe"}
\* the stages whose commands are written by flashBlob under flashEntryBlob
FlashStages == {"bootloader", "radio", "bootCritical", "system", "customKey"}
\* the stages whose commands send the super partition template
SuperStages == {"superUpload", "updateSuper"}

\* the report at place k is the 0.0 of the action that the command at place i
\* belongs to
StartsActionOf(k, i) ==
    /\ trace[k].t = "onProgress" /\ trace[k].num = 0 /\ trace[k].den = 1
    /\ CASE trace[i].stage = "wipe" -> trace[k].action = "wipe" /\ trace[k].item = "data"
         [] trace[i].stage \in TimedStages \ {"wipe"} ->
                trace[k].action = "reboot" /\ trace[k].item = "device"
         [] trace[i].stage \in FlashStages -> trace[k].action = "flash"
         [] trace[i].stage \in SuperStages ->
                /\ trace[k].action = (IF trace[1].op.wipe THEN "wipe" ELSE "flash")
                /\ trace[k].item = "super"
         [] OTHER -> FALSE

\* between the places k and i no action has been reported as finished and no
\* command of another stage of flashZip has been written
SameAction(k, i) ==
    \A j \in (k + 1)..(i - 1) :
        /\ trace[j].t = "onProgress" => ~(trace[j].num = 1 /\ trace[j].den = 1)
        /\ trace[j].t = "cmd" => StageAt(j) = StageAt(i)

\* the command at place i is written after the 0.0 of its action
StartReportedBefore(i) == \E k \in 1..(i - 1) : StartsActionOf(k, i) /\ SameAction(k, i)

\* C36: for every action flashZip reports, the progress event with fraction
\* 0.0 is emitted before the first command of the action is written to the
\* device; for the timed actions, before the reboot or erase command.
C36_StartReportedFirst ==
    ZipRun =>
        \A i \in Commands :
            trace[i].stage \in TimedStages \cup FlashStages \cup SuperStages =>
                StartReportedBefore(i)

\* what holds: the commands of flashEntryBlob and of the super partition
\* template come after the 0.0 of their action
C36_StartReportedFirstUntimed ==
    ZipRun =>
        \A i \in Commands :
            trace[i].stage \in FlashStages \cup SuperStages => StartReportedBefore(i)

\* a command of a timed action is in the trace and the 0.0 of the action
\* follows it
C36_Witness ==
    /\ ZipRun
    /\ \E i \in Commands :
        /\ trace[i].stage \in TimedStages
        /\ ~StartReportedBefore(i)
        /\ \E k \in (i + 1)..Len(trace) : StartsActionOf(k, i)


(***************************************************************************)
(* C37: onReconnect and the end of waitForConnect.                         *)
(***************************************************************************)
\* the places of the call made at c where onReconnect is invoked, and where
\* its waiter is registered
Reconnects(c) == {i \in During(c) : trace[i].t = "onReconnect"}
WaitersOf(c) == {i \in During(c) : trace[i].t = "waiter"}

\* the call made at c has resolved, and a validate sequence that got through
\* claimInterface after the waiter of the call was registered (and after
\* onReconnect, where it is invoked) has resolved that waiter
ResolvedByLaterSequence(c) ==
    \E j \in WaitersOf(c) : \E o \in Ended :
        /\ j < o /\ o < SettleOf(c)
        /\ trace[o].r.k = "ok" /\ trace[o].at = "claimInterface"
        /\ trace[o].settled = trace[j].w
        /\ \A i \in Reconnects(c) : i < j

\* what the trace shows of the calls of waitForConnect made so far
ReconnectsPerCall ==
    /\ \A i \in 1..Len(trace) :
            trace[i].t = "onReconnect" => \E c \in Calls("waitForConnect") : i \in Reconnects(c)
    /\ \A c \in Calls("waitForConnect") :
        /\ Cardinality(Reconnects(c)) = (IF conn.android /\ WaitersOf(c) # {} THEN 1 ELSE 0)
        /\ Cardinality(WaitersOf(c)) <= 1
        /\ Settled(c) /\ ResultOf(c).k = "ok" => ResolvedByLaterSequence(c)

\* this step invokes onReconnect
OnReconnectInvoked ==
    \E i \in (Len(trace) + 1)..Len(trace') : trace'[i].t = "onReconnect"

\* this step is the disconnect event of the current device, heard by the
\* listener while waitForDisconnect is pending
DisconnectObserved ==
    /\ conn.device # NoDevice /\ conn.plugged = conn.device /\ conn.disconnectResolve
    /\ conn'.plugged = NoDevice /\ ~conn'.disconnectResolve

OpRebootAndWait(target) == [op |-> "reboot", target |-> target, wait |-> TRUE]
OpTryReboot(target) == [op |-> "tryReboot", target |-> target]

InitReboot ==
    /\ \E target \in {"bootloader", "fastboot"} :
            prog \in {<<OpRebootAndWait(target)>>, <<OpTryReboot(target)>>}
    /\ \E android \in BOOLEAN, connects \in 1..MaxConnects :
            conn = [Connected EXCEPT !.android = android, !.connects = connects]
    /\ dev = Device(SimpleConfig)
    /\ budget \in {Budget(0, 0), Budget(0, MaxFaults)}
    /\ stk = <<>>
    /\ ret = None
    /\ wr = <<>>
    /\ rd = <<>>
    /\ inq = <<>>
    /\ timer = 0
    /\ timedOut = {}
    /\ nextId = 1
    /\ clock = 0
    /\ ticking = NotTicking
    /\ trace = <<>>
    /\ settles = <<>>

RebootStep ==
    \/ ClientCall
    \/ ClientSettle
    \/ RunCommand
    \/ ReadResponse
    \/ Reboot
    \/ RebootDone
    \/ RebootWaited
    \/ TryReboot
    \/ TryRebootRebooted
    \/ TryRebootConnected
    \/ WaitForConnect

NextReboot ==
    \/ RebootStep
    \/ DevRecv
    \/ Deliver
    \/ TransferError
    \/ DeviceReboots
    \/ ConnectEvent
    \/ UsbOpDone
    \/ UsbOpFailed

SpecReboot ==
    /\ InitReboot /\ [][NextReboot]_vars
    /\ WF_vars(RebootStep) /\ WF_vars(DevRecv) /\ WF_vars(Deliver)
    /\ WF_vars(DeviceReboots) /\ WF_vars(ConnectEvent) /\ WF_vars(UsbOpDone)

(***************************************************************************)
(* C38: the wait for the device after a reboot.                            *)
(***************************************************************************)
\* reboot or tryReboot is waiting in waitForConnect
InWaitForConnect == stk # <<>> /\ Top.fn = "waitForConnect"

\* the device has left the bus and has come back, and the validate sequence
\* of its connect event has got through claimInterface
Reconnected ==
    \E o \in Ended : trace[o].from = "event" /\ trace[o].r.k = "ok"

\* the call the run has made
Called(name) == trace # <<>> /\ trace[1].t = "call" /\ trace[1].op.op = name

\* the call of reboot or tryReboot has resolved
WaitResolved == \E s \in Settlements : trace[s].r.k = "ok"

\* C38: after a reboot, if the device disconnects and later reconnects with
\* a successful validate sequence, the wait started by reboot(wait=true) or
\* tryReboot eventually resolves, whatever the order of the disconnect and
\* connect events and the call of waitForConnect, on platforms with and
\* without automatic reconnection.
C38_WaitResolves == (InWaitForConnect /\ Reconnected) ~> WaitResolved

\* what holds: the same where the user agent is not Android, and for
\* reboot(target, true) on every user agent
C38_WaitResolvesUnlessAndroidTryReboot ==
    (InWaitForConnect /\ Reconnected /\ (conn.android => Called("reboot")))
        ~> WaitResolved

\* on Android tryReboot waits in waitForConnect for a disconnect event after
\* the device has come back and its validate sequence has succeeded
C38_Witness ==
    /\ conn.android /\ Called("tryReboot")
    /\ InWaitForConnect /\ Top.pc = "disconnect"
    /\ Reconnected
    /\ conn.plugged # NoDevice /\ conn.seqs = <<>>


(***************************************************************************)
(* C39: the waiter slot, _connectResolve and _connectReject.               *)
(***************************************************************************)
\* both fields are null or both are set, and to the pair of one call
WaiterPaired == conn.connectResolve = conn.connectReject
WaiterEmpty == conn.connectResolve = 0 /\ conn.connectReject = 0

\* this step ends a validate sequence that has reached open()
SequenceEnds ==
    \E i \in (Len(trace) + 1)..Len(trace') :
        trace'[i].t = "outcome" /\ trace'[i].at # "validate"

\* the outcomes that have settled the waiter w
SettlersOf(w) == {o \in Outcomes : trace[o].settled = w}

\* no waiter has been settled twice, and an outcome settles only a waiter
\* that was registered before it
SettledAtMostOnce ==
    /\ \A j \in Waiters : Cardinality(SettlersOf(trace[j].w)) <= 1
    /\ \A o \in Outcomes :
            trace[o].settled # 0 => \E j \in Waiters : j < o /\ trace[j].w = trace[o].settled

\* C39: in every reachable state _connectResolve and _connectReject are
\* both null or both set; when a validate sequence that has reached open()
\* finishes, successfully or not, the waiter slot is empty afterwards; the
\* promise of one waitForConnect call is settled at most once, and a later
\* connect event does not settle it again.
C39_WaiterSlot ==
    /\ [](WaiterPaired /\ SettledAtMostOnce)
    /\ [][SequenceEnds => WaiterEmpty']_vars

\* a validate sequence has settled a waiter, and the sequence of a later
\* connect event has ended with the slot empty and has settled nothing
C39_Witness ==
    /\ WaiterEmpty
    /\ \E o, p \in Ended :
        /\ o < p
        /\ trace[o].settled # 0
        /\ trace[p].settled = 0 /\ trace[p].from = "event"
        /\ o < StartOf(p)


(***************************************************************************)
(* C40: what becomes of the chunks of the input in splitBlob.              *)
(***************************************************************************)
\* the chunks of the input that split j of the m splits of the call at c
\* carries: its chunks without the Skip chunks splitBlob has added
CarriedChunks(c, j, m) ==
    SubSeq(SplitAt(c, j), Lead(j) + 1, Len(SplitAt(c, j)) - Trail(j, m))

RECURSIVE CarriedUpTo(_, _, _)
\* the chunks that the first j splits carry, in the order of the splits
CarriedUpTo(c, j, m) ==
    IF j = 0 THEN <<>> ELSE CarriedUpTo(c, j - 1, m) \o CarriedChunks(c, j, m)

\* splitBlob has come to its end on a well-formed image
SplitEnded(c) == Completed(c) /\ WellFormed(trace[c].op.blob)

\* C40: for any well-formed sparse image and any split size, splitBlob emits
\* at least one split, every split carries at least one chunk of the input,
\* and the chunks the splits carry are, in the order of the splits, the
\* chunks of the input, each whole and once.
C40_ChunksConserved ==
    \A c \in Calls("splitBlob") :
        SplitEnded(c) =>
            LET m == Cardinality(YieldsOf(c))
            IN  /\ m >= 1
                /\ \A j \in 1..m : Len(CarriedChunks(c, j, m)) >= 1
                /\ CarriedUpTo(c, m, m) = Decoded(trace[c].op.blob)

\* what holds: when splitBlob emits a split at all, the chunks the splits
\* carry are the chunks of the input in order, each whole and once; a split
\* may carry none
C40_ChunksInOrder ==
    \A c \in Calls("splitBlob") :
        SplitEnded(c) /\ YieldsOf(c) # {} =>
            LET m == Cardinality(YieldsOf(c))
            IN  /\ YieldsOf(c) = (c + 1)..(c + m)
                /\ CarriedUpTo(c, m, m) = Decoded(trace[c].op.blob)

\* splitBlob has ended on a well-formed image of three chunks whose first
\* chunk fits no split: the first split carries no chunk of the input
C40_Witness ==
    \E c \in Calls("splitBlob") :
        /\ SplitEnded(c)
        /\ Len(trace[c].op.blob.chunks) = 3
        /\ Cardinality(YieldsOf(c)) >= 2
        /\ CarriedChunks(c, 1, Cardinality(YieldsOf(c))) = <<>>

\* splitBlob has ended on a well-formed image and has emitted no split
C40_NoSplit ==
    \E c \in Calls("splitBlob") : SplitEnded(c) /\ YieldsOf(c) = {}

====
